---- MODULE Spec2Model ----
(***************************************************************************)
(* A model of the playback core of midi-vis-webgpu:                        *)
(*   - AudioEngine (src/src/lib/webgpu/gpuDevice.ts): playFrom / pause /   *)
(*     setAudioMode / dispose, the scheduled note and automation callbacks *)
(*     and the external-audio load;                                        *)
(*   - derivePitchBendRange and compactInPlace, the pure stream helpers;   *)
(*   - MidiTiming (src/src/lib/midi/types.ts): tick <-> second conversion. *)
(*                                                                         *)
(* Units.  Time is counted in steps of 1/60 s, so the compaction intervals *)
(* 1/60 s and 1/30 s are 1 and 2 steps.  A controller value v in [0,1] is  *)
(* the integer 127*v, a pitch-bend value the integer 8192*v, a pitch-bend  *)
(* range the integer 100*semitones + cents.                                *)
(***************************************************************************)
EXTENDS Integers, Sequences, FiniteSets, TLC

\* ------------------------------------------------------------------ bounds
MaxCalls == 2        \* playFrom invocations in flight at once
MaxGen == 4          \* cap on playGeneration
MaxLoads == 2        \* external-audio loads in flight at once
NumFiles == 2        \* distinct external files
MaxFrom == 1         \* largest resume position of the engine specification
MaxOffset == 1       \* largest external-audio offset
MaxResume == 2       \* largest resume position of the playback specification
MaxLate == 4         \* largest resume position of the resume specification
MaxNotes == 4        \* most notes of a track of the sequences
MaxTrackerTime == 5  \* latest time given to the tracker of sounding notes
MaxTrackerNotes == 8 \* most notes of a track given to the tracker
MaxStream == 6       \* most points of a stream of the sequences
MaxPoints == 2       \* points of a generated automation stream
MaxTime == 2         \* latest time of a generated automation point
MaxRpnLen == 3       \* events of a generated RPN stream
MaxRpnTime == 1      \* latest time of a generated RPN event
MaxTempos == 2       \* tempo events given to a MidiTiming
MaxTickOffset == 8   \* ticks sampled on either side of a segment boundary
MaxEvents == 2       \* tempo and time-signature events given to one MidiTiming
MaxCompactLen == 3   \* points of a stream given to the compactor
MaxCompactTime == 4  \* latest time of such a point
BoundaryTick == 1000000  \* the tick of the later tempo events

\* ------------------------------------------------------- program constants
DEFAULT_PITCH_BEND_RANGE_SEMITONES == 2
CcUnit == 127        \* a controller value 1.0
BendUnit == 8192     \* a pitch-bend value 1.0
MinChannel == 0
MaxChannel == 15
BendInterval == 1    \* 1/60 s
CcInterval == 2      \* 1/30 s
BendEps == 1         \* 1/8192
CcEps == 1           \* 1/127

Max2(a, b) == IF a >= b THEN a ELSE b
Min2(a, b) == IF a <= b THEN a ELSE b
Abs(a) == IF a < 0 THEN -a ELSE a

clamp01(v) == Max2(0, Min2(CcUnit, v))
clamp11(v, unit) == Max2(-unit, Min2(unit, v))

\* getOrCreateChannelFx / entryFor: the channel key
ClampChannel(c) == Max2(MinChannel, Min2(MaxChannel, c))

\* ------------------------------------------------------------ stable sorts
\* Array.prototype.sort is stable: insertion behind every element that does
\* not compare greater.
RECURSIVE InsertByTime(_, _)
InsertByTime(s, e) ==
  IF s = <<>> THEN <<e>>
  ELSE IF e.time < s[Len(s)].time
       THEN Append(InsertByTime(SubSeq(s, 1, Len(s) - 1), e), s[Len(s)])
       ELSE Append(s, e)

\* events.sort((a, b) => a.time - b.time)
RECURSIVE SortByTime(_)
SortByTime(s) ==
  IF s = <<>> THEN <<>>
  ELSE InsertByTime(SortByTime(SubSeq(s, 1, Len(s) - 1)), s[Len(s)])

\* ------------------------------------------------------------- compaction
\* a loop that never replaces within the time bucket
RECURSIVE CompactLoopNoBucket(_, _, _, _)
CompactLoopNoBucket(kept, rest, minIntervalSec, valueEpsilon) ==
  IF rest = <<>> THEN kept
  ELSE LET e == Head(rest) IN
    IF kept # <<>> /\ Abs(e.value - kept[Len(kept)].value) <= valueEpsilon
      THEN CompactLoopNoBucket(kept, Tail(rest), minIntervalSec, valueEpsilon)
    ELSE CompactLoopNoBucket(Append(kept, e), Tail(rest), minIntervalSec, valueEpsilon)

\* a loop that never drops a point for its value
RECURSIVE CompactLoopNoEpsilon(_, _, _, _)
CompactLoopNoEpsilon(kept, rest, minIntervalSec, valueEpsilon) ==
  IF rest = <<>> THEN kept
  ELSE LET e == Head(rest) IN
    IF kept = <<>> THEN CompactLoopNoEpsilon(<<e>>, Tail(rest), minIntervalSec, valueEpsilon)
    ELSE IF e.time - kept[Len(kept)].time < minIntervalSec
      THEN CompactLoopNoEpsilon([kept EXCEPT ![Len(kept)] = e], Tail(rest),
                                minIntervalSec, valueEpsilon)
    ELSE CompactLoopNoEpsilon(Append(kept, e), Tail(rest), minIntervalSec, valueEpsilon)

RECURSIVE CompactLoop(_, _, _, _)
CompactLoop(kept, rest, minIntervalSec, valueEpsilon) ==
  IF rest = <<>> THEN kept
  ELSE LET e == Head(rest) IN
    IF kept = <<>> THEN CompactLoop(<<e>>, Tail(rest), minIntervalSec, valueEpsilon)
    ELSE LET prev == kept[Len(kept)] IN
      IF Abs(e.value - prev.value) <= valueEpsilon
        THEN CompactLoop(kept, Tail(rest), minIntervalSec, valueEpsilon)
      ELSE IF e.time - prev.time < minIntervalSec
        THEN CompactLoop([kept EXCEPT ![Len(kept)] = e], Tail(rest), minIntervalSec, valueEpsilon)
      ELSE CompactLoop(Append(kept, e), Tail(rest), minIntervalSec, valueEpsilon)

compactInPlace(events, minIntervalSec, valueEpsilon) ==
  IF Len(events) <= 1 THEN events
  ELSE CompactLoop(<<>>, SortByTime(events), minIntervalSec, valueEpsilon)

\* ------------------------------------------------- pitch-bend range (RPN)
\* a sort by time alone
priorityNone(cc) == 0

priority(cc) == IF cc = 101 THEN 0 ELSE IF cc = 100 THEN 1 ELSE IF cc = 6 THEN 2
                ELSE IF cc = 38 THEN 3 ELSE 4

\* a.time - b.time || priority(a.controller) - priority(b.controller)  <  0
RpnLess(a, b) ==
  \/ a.time < b.time
  \/ a.time = b.time /\ priority(a.controller) < priority(b.controller)

RECURSIVE InsertRpn(_, _)
InsertRpn(s, e) ==
  IF s = <<>> THEN <<e>>
  ELSE IF RpnLess(e, s[Len(s)])
       THEN Append(InsertRpn(SubSeq(s, 1, Len(s) - 1), e), s[Len(s)])
       ELSE Append(s, e)

RECURSIVE SortRpn(_)
SortRpn(s) ==
  IF s = <<>> THEN <<>>
  ELSE InsertRpn(SortRpn(SubSeq(s, 1, Len(s) - 1)), s[Len(s)])

RpnStart == [rpnMsb |-> 127, rpnLsb |-> 127,
             semitones |-> DEFAULT_PITCH_BEND_RANGE_SEMITONES, cents |-> 0, out |-> <<>>]

\* a loop that takes data entry whatever the selectors say
RpnStepAnySelector(r, e) ==
  LET v7 == Max2(0, Min2(127, e.value)) IN
  IF e.controller = 101 THEN [r EXCEPT !.rpnMsb = v7]
  ELSE IF e.controller = 100 THEN [r EXCEPT !.rpnLsb = v7]
  ELSE IF e.controller = 6
    THEN [r EXCEPT !.semitones = v7,
                   !.out = Append(@, [time |-> e.time, value |-> v7 * 100 + r.cents])]
  ELSE IF e.controller = 38
    THEN [r EXCEPT !.cents = v7,
                   !.out = Append(@, [time |-> e.time, value |-> r.semitones * 100 + v7])]
  ELSE r

\* one iteration of the loop over the sorted events
RpnStep(r, e) ==
  LET v7 == Max2(0, Min2(127, e.value)) IN
  IF e.controller = 101 THEN [r EXCEPT !.rpnMsb = v7]
  ELSE IF e.controller = 100 THEN [r EXCEPT !.rpnLsb = v7]
  ELSE IF r.rpnMsb = 0 /\ r.rpnLsb = 0
    THEN IF e.controller = 6
           THEN [r EXCEPT !.semitones = v7,
                          !.out = Append(@, [time |-> e.time, value |-> v7 * 100 + r.cents])]
         ELSE IF e.controller = 38
           THEN [r EXCEPT !.cents = v7,
                          !.out = Append(@, [time |-> e.time, value |-> r.semitones * 100 + v7])]
         ELSE r
  ELSE r

RECURSIVE RpnLoop(_, _)
RpnLoop(r, events) ==
  IF events = <<>> THEN r ELSE RpnLoop(RpnStep(r, Head(events)), Tail(events))

derivePitchBendRange(events) ==
  IF Len(events) = 0 THEN <<>> ELSE RpnLoop(RpnStart, SortRpn(events)).out

\* ----------------------------------------------------------- channel state
DefaultState ==
  [pitchBendRangeSemitones |-> DEFAULT_PITCH_BEND_RANGE_SEMITONES * 100,
   pitchBendValue |-> 0,
   modWheel |-> 0, aftertouch |-> 0, tremolo |-> 0,
   volume |-> CcUnit, expression |-> CcUnit, pan |-> 0,
   sustainDown |-> FALSE, sustainedNotes |-> <<>>]

\* A ChannelFx: the state record, the pitches sounding on its synth and the
\* detune last set on the synth, in units of 1/8192 cent (a PolySynth starts
\* with detune 0), and the depth last set on its vibrato, in units of 1/127
\* (a Vibrato is created with depth 0).
NewChannelFx == [state |-> DefaultState, voices |-> {}, detune |-> 0, vibrato |-> 0]

getOrCreateChannelFx(chans, channel) ==
  LET ch == ClampChannel(channel) IN
  IF ch \in DOMAIN chans THEN chans ELSE (ch :> NewChannelFx) @@ chans

SeqToSet(s) == {s[i] : i \in 1..Len(s)}
SeqWithout(s, x) == SelectSeq(s, LAMBDA y : y # x)
\* Set.add: an element already present keeps its place
SeqAdd(s, x) == IF x \in SeqToSet(s) THEN s ELSE Append(s, x)

\* An effect on a synth: now = TRUE for Tone.now(), else the callback's time.
Op(name, ch, key, time, now) ==
  [op |-> name, ch |-> ch, key |-> key, time |-> time, now |-> now]

RECURSIVE VoicesAfter(_, _, _)
VoicesAfter(voices, ch, ops) ==
  IF ops = <<>> THEN voices
  ELSE LET o == Head(ops)
           v == IF o.ch # ch THEN voices
                ELSE IF o.op = "triggerAttack" THEN voices \cup {o.key}
                ELSE IF o.op = "triggerRelease" THEN voices \ {o.key}
                ELSE IF o.op = "releaseAll" THEN {}
                ELSE voices
       IN VoicesAfter(v, ch, Tail(ops))

WithOps(chans, ops) ==
  [ch \in DOMAIN chans |-> [chans[ch] EXCEPT !.voices = VoicesAfter(@, ch, ops)]]

\* The apply callbacks of scheduleMidiAutomation: the state they leave ...
IsDown(v) == 2 * v >= CcUnit          \* v >= 0.5
ApplyAuto(st, kind, v) ==
  CASE kind = "range" -> [st EXCEPT !.pitchBendRangeSemitones = Max2(0, v)]
    [] kind = "bend" -> [st EXCEPT !.pitchBendValue = clamp11(v, BendUnit)]
    [] kind = "modWheel" -> [st EXCEPT !.modWheel = clamp01(v)]
    [] kind = "aftertouch" -> [st EXCEPT !.aftertouch = clamp01(v)]
    [] kind = "tremolo" -> [st EXCEPT !.tremolo = clamp01(v)]
    [] kind = "volume" -> [st EXCEPT !.volume = clamp01(v)]
    [] kind = "expression" -> [st EXCEPT !.expression = clamp01(v)]
    [] kind = "pan" -> [st EXCEPT !.pan = clamp11(v * 2 - CcUnit, CcUnit)]
    [] kind = "sustain" ->
         [st EXCEPT !.sustainDown = IsDown(v),
                    !.sustainedNotes = IF st.sustainDown /\ ~IsDown(v) THEN <<>> ELSE @]
    [] OTHER -> st

\* a detune that takes the default range whatever the state says
applyPitchBendDefaultRange(st) ==
  st.pitchBendValue * DEFAULT_PITCH_BEND_RANGE_SEMITONES * 100

\* applyPitchBend: detune = pitchBendValue * pitchBendRangeSemitones * 100
\* cents; the range of the model is already 100 * semitones
applyPitchBend(st) == st.pitchBendValue * st.pitchBendRangeSemitones

\* ... the detune they leave on the synth ...
DetuneAfter(detune, st, kind) ==
  IF kind \in {"range", "bend"} THEN applyPitchBend(st) ELSE detune

\* a vibrato that follows the source that spoke last
VibratoOfLastSource(vibrato, st, kind) ==
  IF kind = "modWheel" THEN clamp01(st.modWheel)
  ELSE IF kind = "aftertouch" THEN clamp01(st.aftertouch)
  ELSE vibrato

\* ... the depth they leave on the vibrato (applyVibrato) ...
VibratoAfter(vibrato, st, kind) ==
  IF kind \in {"modWheel", "aftertouch"}
  THEN clamp01(Max2(st.modWheel, st.aftertouch))
  ELSE vibrato

\* ... and the releases they trigger (the sustain pedal going up).
\* a pedal that, going up, releases only the first pitch it held
ApplyOpsFirstOnly(st, kind, v, ch, time, now) ==
  IF kind = "sustain" /\ st.sustainDown /\ ~IsDown(v) /\ st.sustainedNotes # <<>>
  THEN <<Op("triggerRelease", ch, st.sustainedNotes[1], time, now)>>
  ELSE <<>>

ApplyOps(st, kind, v, ch, time, now) ==
  IF kind = "sustain" /\ st.sustainDown /\ ~IsDown(v)
  THEN [i \in 1..Len(st.sustainedNotes) |->
          Op("triggerRelease", ch, st.sustainedNotes[i], time, now)]
  ELSE <<>>

\* ------------------------------------------------- gathering the streams
EmptyEntry ==
  [pitchBends |-> <<>>, modWheel |-> <<>>, aftertouch |-> <<>>, tremolo |-> <<>>,
   volume |-> <<>>, expression |-> <<>>, pan |-> <<>>, sustain |-> <<>>, rpn |-> <<>>]

\* byChannel is a Map: a sequence of [ch, entry] in insertion order.
HasEntry(bc, k) == \E i \in 1..Len(bc) : bc[i].ch = k
EntryAt(bc, k) == bc[CHOOSE i \in 1..Len(bc) : bc[i].ch = k].entry

entryFor(bc, channel) ==
  IF HasEntry(bc, ClampChannel(channel)) THEN bc
  ELSE Append(bc, [ch |-> ClampChannel(channel), entry |-> EmptyEntry])

PushEvent(bc, channel, stream, ev) ==
  LET b == entryFor(bc, channel) IN
  [i \in 1..Len(b) |->
     IF b[i].ch = ClampChannel(channel)
     THEN [b[i] EXCEPT !.entry[stream] = Append(@, ev)] ELSE b[i]]

CcStream(controller) ==
  CASE controller = 1 -> "modWheel"
    [] controller = 92 -> "tremolo"
    [] controller = 7 -> "volume"
    [] controller = 11 -> "expression"
    [] controller = 10 -> "pan"
    [] controller = 64 -> "sustain"
    [] controller \in {101, 100, 6, 38} -> "rpn"
    [] OTHER -> "none"

RECURSIVE GatherPitchBends(_, _, _)
GatherPitchBends(bc, channel, pbs) ==
  IF pbs = <<>> THEN bc
  ELSE GatherPitchBends(
         PushEvent(bc, channel, "pitchBends",
                   [time |-> Head(pbs).time, value |-> Head(pbs).value]),
         channel, Tail(pbs))

RECURSIVE GatherControlChanges(_, _, _)
GatherControlChanges(bc, channel, ccs) ==
  IF ccs = <<>> THEN bc
  ELSE LET cc == Head(ccs)
           stream == CcStream(cc.controller)
           b == IF stream = "none" THEN bc
                ELSE IF stream = "rpn"
                  THEN PushEvent(bc, channel, "rpn",
                         [time |-> cc.time, controller |-> cc.controller, value |-> cc.value])
                ELSE PushEvent(bc, channel, stream, [time |-> cc.time, value |-> cc.value])
       IN GatherControlChanges(b, channel, Tail(ccs))

RECURSIVE GatherAftertouch(_, _)
GatherAftertouch(bc, ats) ==
  IF ats = <<>> THEN bc
  ELSE GatherAftertouch(
         PushEvent(bc, Head(ats).channel, "aftertouch",
                   [time |-> Head(ats).time, value |-> Head(ats).value]),
         Tail(ats))

GatherTrack(bc, tr) ==
  LET b == IF tr.isDrum THEN bc
           ELSE GatherControlChanges(
                  GatherPitchBends(entryFor(bc, tr.channel), tr.channel, tr.pitchBends),
                  tr.channel, tr.controlChanges)
  IN GatherAftertouch(GatherAftertouch(b, tr.channelAftertouch), tr.noteAftertouch)

RECURSIVE GatherTracks(_, _)
GatherTracks(bc, tracks) ==
  IF tracks = <<>> THEN bc ELSE GatherTracks(GatherTrack(bc, Head(tracks)), Tail(tracks))

\* ------------------------------------------------------------- scheduling
\* A scheduled callback.  kind is "noteOn", "noteOff" or an automation kind;
\* key is the pitch of a note, value the value of an automation point.
Callback(time, kind, ch, key, value, drum) ==
  [time |-> time, kind |-> kind, ch |-> ch, key |-> key, value |-> value, drum |-> drum]

\* transport.scheduleOnce: the timeline keeps events in time order, a new
\* event behind the ones already there for the same time.
scheduleOnce(q, cb) ==
  LET n == Cardinality({i \in 1..Len(q) : q[i].time <= cb.time})
  IN SubSeq(q, 1, n) \o <<cb>> \o SubSeq(q, n + 1, Len(q))

RECURSIVE ScheduleFuture(_, _, _, _, _)
ScheduleFuture(q, events, kind, ch, start) ==
  IF events = <<>> THEN q
  ELSE LET e == Head(events)
           q1 == IF e.time <= start THEN q
                 ELSE scheduleOnce(q, Callback(e.time, kind, ch, 0, e.value, FALSE))
       IN ScheduleFuture(q1, Tail(events), kind, ch, start)

Compacted(kind, events) ==
  IF kind = "bend" THEN compactInPlace(events, BendInterval, BendEps)
  ELSE IF kind \in {"modWheel", "aftertouch", "tremolo", "volume", "expression", "pan"}
    THEN compactInPlace(events, CcInterval, CcEps)
  ELSE SortByTime(events)

\* The events at or before start form a prefix of the sorted stream; the
\* loop keeps the last of them.
LatestIndex(events, start) ==
  Cardinality({i \in 1..Len(events) : \A j \in 1..i : events[j].time <= start})

\* acc = [chans, q, ops]: channels, pending callbacks, effects so far.
scheduleLatestAndFuture(acc, ch, kind, rawEvents, start) ==
  IF Len(rawEvents) = 0 THEN acc
  ELSE LET events == Compacted(kind, rawEvents)
           n == LatestIndex(events, start)
           st == acc.chans[ch].state
           a1 == IF n = 0 THEN acc
                 ELSE [acc EXCEPT
                         !.chans[ch].state = ApplyAuto(st, kind, events[n].value),
                         !.chans[ch].detune =
                            DetuneAfter(@, ApplyAuto(st, kind, events[n].value), kind),
                         !.chans[ch].vibrato =
                            VibratoAfter(@, ApplyAuto(st, kind, events[n].value), kind),
                         !.ops = @ \o ApplyOps(st, kind, events[n].value, ch, 0, TRUE)]
       IN [a1 EXCEPT !.q = ScheduleFuture(@, events, kind, ch, start)]

StreamOrder ==
  << <<"bend", "pitchBends">>, <<"modWheel", "modWheel">>, <<"aftertouch", "aftertouch">>,
     <<"tremolo", "tremolo">>, <<"volume", "volume">>, <<"expression", "expression">>,
     <<"pan", "pan">>, <<"sustain", "sustain">> >>

RECURSIVE ScheduleStreams(_, _, _, _, _)
ScheduleStreams(acc, ch, entry, start, i) ==
  IF i > Len(StreamOrder) THEN acc
  ELSE ScheduleStreams(
         scheduleLatestAndFuture(acc, ch, StreamOrder[i][1], entry[StreamOrder[i][2]], start),
         ch, entry, start, i + 1)

\* The reset of one channel at the start of scheduleMidiAutomation's loop body.
\* a reset that forgets the volume
ResetStateKeepsVolume(st) == [DefaultState EXCEPT !.volume = st.volume]

ResetState(st) == DefaultState

ScheduleChannel(acc, ch, entry, start) ==
  LET chans == getOrCreateChannelFx(acc.chans, ch)
      a0 == [acc EXCEPT !.chans = [chans EXCEPT ![ch].state = ResetState(@),
                                                ![ch].detune = 0,
                                                ![ch].vibrato = 0]]
      a1 == scheduleLatestAndFuture(a0, ch, "range", derivePitchBendRange(entry.rpn), start)
  IN ScheduleStreams(a1, ch, entry, start, 1)

RECURSIVE ScheduleChannels(_, _, _)
ScheduleChannels(acc, bc, start) ==
  IF bc = <<>> THEN acc
  ELSE ScheduleChannels(ScheduleChannel(acc, Head(bc).ch, Head(bc).entry, start),
                        Tail(bc), start)

scheduleMidiAutomation(acc, song, fromSeconds) ==
  ScheduleChannels(acc, GatherTracks(<<>>, song.tracks), Max2(0, fromSeconds))

\* a note loop that skips the notes already sounding at the resume point
RECURSIVE ScheduleNotesFromOnset(_, _, _, _)
ScheduleNotesFromOnset(q, track, notes, start) ==
  IF notes = <<>> THEN q
  ELSE LET note == Head(notes)
           ch == ClampChannel(track.channel)
           q1 == scheduleOnce(q, Callback(note.time, "noteOn", ch, note.midi, 0, track.isDrum))
           q2 == IF track.isDrum THEN q1
                 ELSE scheduleOnce(q1, Callback(note.endTime, "noteOff", ch, note.midi, 0, FALSE))
       IN ScheduleNotesFromOnset(IF note.time < start THEN q ELSE q2, track, Tail(notes), start)

RECURSIVE ScheduleNotes(_, _, _, _)
ScheduleNotes(q, track, notes, start) ==
  IF notes = <<>> THEN q
  ELSE LET note == Head(notes)
           ch == ClampChannel(track.channel)
           triggerTime == IF note.time < start THEN start ELSE note.time
           q1 == scheduleOnce(q, Callback(triggerTime, "noteOn", ch, note.midi, 0, track.isDrum))
           q2 == IF track.isDrum THEN q1
                 ELSE scheduleOnce(q1, Callback(note.endTime, "noteOff", ch, note.midi, 0, FALSE))
       IN ScheduleNotes(IF note.endTime <= start THEN q ELSE q2, track, Tail(notes), start)

scheduleTrack(acc, track, start) ==
  [acc EXCEPT !.chans = IF track.isDrum THEN @ ELSE getOrCreateChannelFx(@, track.channel),
              !.q = ScheduleNotes(@, track, track.notes, start)]

RECURSIVE ScheduleTracks(_, _, _)
ScheduleTracks(acc, tracks, start) ==
  IF tracks = <<>> THEN acc
  ELSE ScheduleTracks(scheduleTrack(acc, Head(tracks), start), Tail(tracks), start)

scheduleMidiNotes(acc, song, fromSeconds) ==
  ScheduleTracks(acc, song.tracks, Max2(0, fromSeconds))

\* ------------------------------------------------------ binary64 numbers
\* A JavaScript number is an IEEE-754 binary64.  The tick/second conversions
\* work on finite numbers >= 0, modelled exactly: a number is m * 2^e with m
\* a natural number of MantissaBits bits (or 0), and every operation rounds
\* its exact result to the nearest such number, ties to even.
\*
\* A natural number of any size is a sequence of limbs, least significant
\* first, with no leading zero limb.
MantissaBits == 53
Limb == 2^14
LimbBits == 14 * (Limb \div Limb)

RECURSIVE LStrip(_)
LStrip(a) == IF a = <<>> THEN <<>> ELSE IF a[Len(a)] # 0 THEN a
             ELSE LStrip(SubSeq(a, 1, Len(a) - 1))

RECURSIVE LNat(_)
LNat(n) == IF n = 0 THEN <<>> ELSE <<n % Limb>> \o LNat(n \div Limb)

RECURSIVE LVal(_)
LVal(a) == IF a = <<>> THEN 0 ELSE a[1] + Limb * LVal(Tail(a))

LDigit(a, i) == IF i <= Len(a) THEN a[i] ELSE 0

RECURSIVE LAddFrom(_, _, _, _)
LAddFrom(a, b, i, carry) ==
  IF i > Max2(Len(a), Len(b)) THEN (IF carry = 0 THEN <<>> ELSE <<carry>>)
  ELSE LET sum == LDigit(a, i) + LDigit(b, i) + carry
       IN <<sum % Limb>> \o LAddFrom(a, b, i + 1, sum \div Limb)

LAdd(a, b) == LAddFrom(a, b, 1, 0)

RECURSIVE LSubFrom(_, _, _, _)
LSubFrom(a, b, i, borrow) ==
  IF i > Len(a) THEN <<>>
  ELSE LET d == a[i] - LDigit(b, i) - borrow
       IN <<IF d < 0 THEN d + Limb ELSE d>> \o LSubFrom(a, b, i + 1, IF d < 0 THEN 1 ELSE 0)

\* a - b for a >= b
LSub(a, b) == LStrip(LSubFrom(a, b, 1, 0))

RECURSIVE LCmpFrom(_, _, _)
LCmpFrom(a, b, i) ==
  IF i = 0 THEN 0
  ELSE IF a[i] # b[i] THEN (IF a[i] < b[i] THEN -1 ELSE 1)
  ELSE LCmpFrom(a, b, i - 1)

\* -1, 0, 1 as a < b, a = b, a > b
LCmp(a, b) ==
  IF Len(a) # Len(b) THEN (IF Len(a) < Len(b) THEN -1 ELSE 1) ELSE LCmpFrom(a, b, Len(a))

RECURSIVE LMulSmallFrom(_, _, _, _)
LMulSmallFrom(a, k, i, carry) ==
  IF i > Len(a) THEN (IF carry = 0 THEN <<>> ELSE <<carry>>)
  ELSE LET p == a[i] * k + carry
       IN <<p % Limb>> \o LMulSmallFrom(a, k, i + 1, p \div Limb)

\* a * k for k < Limb
LMulSmall(a, k) == IF k = 0 THEN <<>> ELSE LMulSmallFrom(a, k, 1, 0)

LShiftLimbs(a, n) == IF a = <<>> THEN <<>> ELSE [i \in 1..n |-> 0] \o a

RECURSIVE LMulFrom(_, _, _)
LMulFrom(a, b, i) ==
  IF i > Len(a) THEN <<>>
  ELSE LAdd(LShiftLimbs(LMulSmall(b, a[i]), i - 1), LMulFrom(a, b, i + 1))

LMul(a, b) == LMulFrom(a, b, 1)

\* a * 2^k
LShl(a, k) == LShiftLimbs(LMulSmall(a, 2^(k % LimbBits)), k \div LimbBits)

RECURSIVE LDivSmallFrom(_, _, _, _)
LDivSmallFrom(a, k, i, rem) ==
  IF i = 0 THEN <<>>
  ELSE LET cur == rem * Limb + a[i]
       IN Append(LDivSmallFrom(a, k, i - 1, cur % k), cur \div k)

\* a div 2^k: the limbs below go, the rest is divided from the top
LShr(a, k) ==
  LET n == k \div LimbBits
      hi == IF n >= Len(a) THEN <<>> ELSE SubSeq(a, n + 1, Len(a))
  IN LStrip(LDivSmallFrom(hi, 2^(k % LimbBits), Len(hi), 0))

RECURSIVE BitLenSmall(_)
BitLenSmall(x) == IF x = 0 THEN 0 ELSE 1 + BitLenSmall(x \div 2)

LBitLen(a) == IF a = <<>> THEN 0 ELSE LimbBits * (Len(a) - 1) + BitLenSmall(a[Len(a)])

\* bit i of a, bit 0 the lowest
LBit(a, i) == (LDigit(a, i \div LimbBits + 1) \div 2^(i % LimbBits)) % 2

\* a mod 2^k = 0
LLowZero(a, k) ==
  \A j \in 1..Len(a) :
    IF LimbBits * j <= k THEN a[j] = 0
    ELSE IF LimbBits * (j - 1) < k THEN a[j] % 2^(k - LimbBits * (j - 1)) = 0
    ELSE TRUE

FZero == [m |-> <<>>, e |-> 0]

\* n * 2^e rounded to nearest, ties to even
FRound(n, e) ==
  LET len == LBitLen(n) IN
  IF len = 0 THEN FZero
  ELSE IF len <= MantissaBits
    THEN [m |-> LShl(n, MantissaBits - len), e |-> e - (MantissaBits - len)]
  ELSE LET k == len - MantissaBits
           q == LShr(n, k)
           up == LBit(n, k - 1) = 1 /\ (~LLowZero(n, k - 1) \/ q[1] % 2 = 1)
           q1 == IF up THEN LAdd(q, <<1>>) ELSE q
       IN IF LBitLen(q1) > MantissaBits
          THEN [m |-> LShr(q1, 1), e |-> e + k + 1]
          ELSE [m |-> q1, e |-> e + k]

\* an integer below 2^31 as a number
FNat(n) == FRound(LNat(n), 0)

FMul(a, b) ==
  IF a.m = <<>> \/ b.m = <<>> THEN FZero ELSE FRound(LMul(a.m, b.m), a.e + b.e)

\* one step of restoring division: the next quotient bit of r / d
FDivStep(r, d, q) ==
  LET r2 == LAdd(r, r)
      ge == LCmp(r2, d) >= 0
      q2 == LAdd(q, q)
  IN [r |-> IF ge THEN LSub(r2, d) ELSE r2, q |-> IF ge THEN LAdd(q2, <<1>>) ELSE q2]

\* n steps, taken as two halves; the first half's result is bound before the
\* second is taken
RECURSIVE FDivLoop(_, _, _, _)
FDivLoop(r, d, q, n) ==
  IF n = 0 THEN [q |-> q, r |-> r]
  ELSE IF n = 1 THEN FDivStep(r, d, q)
  ELSE CHOOSE res \in {FDivLoop(h.r, d, h.q, n - n \div 2) :
                         h \in {FDivLoop(r, d, q, n \div 2)}} : TRUE

\* a / b for b > 0: the quotient to MantissaBits + 3 fractional bits and a
\* sticky bit for the remainder, then rounded
FDiv(a, b) ==
  IF a.m = <<>> THEN FZero
  ELSE LET ge == LCmp(a.m, b.m) >= 0
           d == FDivLoop(IF ge THEN LSub(a.m, b.m) ELSE a.m, b.m,
                         IF ge THEN <<1>> ELSE <<>>, MantissaBits + 3)
           n == LAdd(LAdd(d.q, d.q), IF d.r = <<>> THEN <<>> ELSE <<1>>)
       IN FRound(n, a.e - b.e - (MantissaBits + 3) - 1)

\* the two mantissas on the smaller exponent
FAligned(a, b) ==
  LET e == Min2(a.e, b.e) IN [a |-> LShl(a.m, a.e - e), b |-> LShl(b.m, b.e - e), e |-> e]

FAdd(a, b) ==
  IF a.m = <<>> THEN b ELSE IF b.m = <<>> THEN a
  ELSE LET x == FAligned(a, b) IN FRound(LAdd(x.a, x.b), x.e)

\* a - b for a >= b
FSub(a, b) ==
  IF b.m = <<>> THEN a
  ELSE LET x == FAligned(a, b) IN FRound(LSub(x.a, x.b), x.e)

FLe(a, b) ==
  IF a.m = <<>> THEN TRUE ELSE IF b.m = <<>> THEN FALSE
  ELSE LET x == FAligned(a, b) IN LCmp(x.a, x.b) <= 0

FMax(a, b) == IF FLe(a, b) THEN b ELSE a
FMin(a, b) == IF FLe(a, b) THEN a ELSE b

\* Math.floor of a number below 2^31
FFloor(a) ==
  IF a.m = <<>> THEN 0
  ELSE IF a.e >= 0 THEN LVal(LShl(a.m, a.e))
  ELSE LVal(LShr(a.m, 0 - a.e))

\* -------------------------------------------------------------- MidiTiming
\* Ticks, ppq and bpm are integers here (exact as binary64); seconds and
\* fractional ticks are binary64 numbers.
DefaultBpm == 120
DefaultPpq == 480

\* A number of an input event: finite values are counted in halves, so that
\* 2.5 is Halves(5); NaN stands for the values that are not finite.
\* Pow2(k) is 2^k, the denominator a MIDI file gives with exponent k; the
\* numbers that are not finite keep their sign in halves.
Whole(n) == [finite |-> TRUE, halves |-> 2 * n, pow |-> 0]
Halves(h) == [finite |-> TRUE, halves |-> h, pow |-> 0]
Pow2(k) == [finite |-> TRUE, halves |-> 2, pow |-> k]
NaN == [finite |-> FALSE, halves |-> 0, pow |-> 0]
PositiveInfinity == [finite |-> FALSE, halves |-> 2, pow |-> 0]
NegativeInfinity == [finite |-> FALSE, halves |-> -2, pow |-> 0]
NumberIsFinite(x) == x.finite
MathFloor(x) == x.halves \div 2
\* Math.floor of a number above 0, as the binary64 number it is
FloorNumber(x) == FRound(LNat(x.halves \div 2), x.pow)
\* the value of a number that is whole (the bpm values of the inputs are)
WholeValue(x) == x.halves \div 2

\* an event as the caller gives it, and as the constructor keeps it
RawTempo(ticks, bpm) == [ticks |-> ticks, bpm |-> bpm]
RawTimeSignature(ticks, numerator, denominator) ==
  [ticks |-> ticks, timeSignature |-> <<numerator, denominator>>]
TempoEvent(ticks, bpm) == [ticks |-> ticks, bpm |-> bpm]
TimeSignatureEvent(ticks, timeSignature) == [ticks |-> ticks, timeSignature |-> timeSignature]

\* (ticks / ppq) * (60 / bpm)
ticksToSecondsDelta(ticks, bpm, ppq) ==
  FMul(FDiv(FNat(ticks), FNat(ppq)), FDiv(FNat(60), FNat(bpm)))

\* (seconds * bpm * ppq) / 60
secondsToTicksDelta(seconds, bpm, ppq) ==
  FDiv(FMul(FMul(seconds, FNat(bpm)), FNat(ppq)), FNat(60))

\* a dedupe in which the first event of a tick wins
RECURSIVE DedupeFirstWins(_, _)
DedupeFirstWins(deduped, events) ==
  IF events = <<>> THEN deduped
  ELSE LET t == Head(events) IN
       IF deduped # <<>> /\ deduped[Len(deduped)].ticks = t.ticks
       THEN DedupeFirstWins(deduped, Tail(events))
       ELSE DedupeFirstWins(Append(deduped, t), Tail(events))

RECURSIVE DedupeTempos(_, _)
DedupeTempos(deduped, tempos) ==
  IF tempos = <<>> THEN deduped
  ELSE LET t == Head(tempos) IN
       IF deduped # <<>> /\ deduped[Len(deduped)].ticks = t.ticks
       THEN DedupeTempos([deduped EXCEPT ![Len(deduped)] = t], Tail(tempos))
       ELSE DedupeTempos(Append(deduped, t), Tail(tempos))

normalizeTempoEvents(tempos) ==
  IF Len(tempos) = 0 THEN <<TempoEvent(0, DefaultBpm)>>
  ELSE LET deduped == DedupeTempos(<<>>, tempos) IN
       IF deduped[1].ticks # 0 THEN <<TempoEvent(0, DefaultBpm)>> \o deduped ELSE deduped

RECURSIVE InsertByTicks(_, _)
InsertByTicks(s, e) ==
  IF s = <<>> THEN <<e>>
  ELSE IF e.ticks < s[Len(s)].ticks
       THEN Append(InsertByTicks(SubSeq(s, 1, Len(s) - 1), e), s[Len(s)])
       ELSE Append(s, e)

RECURSIVE SortByTicks(_)
SortByTicks(s) ==
  IF s = <<>> THEN <<>>
  ELSE InsertByTicks(SortByTicks(SubSeq(s, 1, Len(s) - 1)), s[Len(s)])

\* the dedupe loop of normalizeTimeSignatureEvents
RECURSIVE DedupeTimeSignatures(_, _)
DedupeTimeSignatures(deduped, timeSignatures) ==
  IF timeSignatures = <<>> THEN deduped
  ELSE LET ts == Head(timeSignatures) IN
       IF deduped # <<>> /\ deduped[Len(deduped)].ticks = ts.ticks
       THEN DedupeTimeSignatures([deduped EXCEPT ![Len(deduped)] = ts], Tail(timeSignatures))
       ELSE DedupeTimeSignatures(Append(deduped, ts), Tail(timeSignatures))

normalizeTimeSignatureEvents(timeSignatures) ==
  IF Len(timeSignatures) = 0 THEN <<TimeSignatureEvent(0, <<FNat(4), FNat(4)>>)>>
  ELSE LET deduped == DedupeTimeSignatures(<<>>, timeSignatures) IN
       IF deduped[1].ticks # 0 THEN <<TimeSignatureEvent(0, <<FNat(4), FNat(4)>>)>> \o deduped ELSE deduped

\* the constructor's filter, floor and sort of args.tempos
TempoIsValid(t) ==
  /\ NumberIsFinite(t.ticks) /\ t.ticks.halves >= 0
  /\ NumberIsFinite(t.bpm) /\ t.bpm.halves > 0

RECURSIVE MapTempos(_)
MapTempos(tempos) ==
  IF tempos = <<>> THEN <<>>
  ELSE <<TempoEvent(MathFloor(Head(tempos).ticks), WholeValue(Head(tempos).bpm))>>
       \o MapTempos(Tail(tempos))

ValidTempos(tempos) == SortByTicks(MapTempos(SelectSeq(tempos, TempoIsValid)))

\* the constructor's filter, floor and sort of args.timeSignatures
TimeSignatureIsValid(ts) ==
  /\ NumberIsFinite(ts.ticks) /\ ts.ticks.halves >= 0
  /\ NumberIsFinite(ts.timeSignature[1]) /\ NumberIsFinite(ts.timeSignature[2])
  /\ MathFloor(ts.timeSignature[1]) > 0 /\ MathFloor(ts.timeSignature[2]) > 0

RECURSIVE MapTimeSignatures(_)
MapTimeSignatures(timeSignatures) ==
  IF timeSignatures = <<>> THEN <<>>
  ELSE LET ts == Head(timeSignatures) IN
       <<TimeSignatureEvent(MathFloor(ts.ticks),
                            <<FloorNumber(ts.timeSignature[1]), FloorNumber(ts.timeSignature[2])>>)>>
       \o MapTimeSignatures(Tail(timeSignatures))

ValidTimeSignatures(timeSignatures) ==
  SortByTicks(MapTimeSignatures(SelectSeq(timeSignatures, TimeSignatureIsValid)))

\* (ppq * 4) / denom
ticksPerBeat(ppq, timeSignature) == FDiv(FMul(FNat(ppq), FNat(4)), timeSignature[2])

\* One pass of the loop of buildMeasures after the push: the next tickCursor,
\* tsIndex and currentTS. tsIndex counts from 0; nextTSTick is the tick of
\* timeSignatures[tsIndex + 1], POSITIVE_INFINITY when there is none.
MeasureStep(tsIndex, currentTS, tickCursor, timeSignatures, ppq) ==
  LET hasNext == tsIndex + 2 <= Len(timeSignatures)
      nextTSTick == IF hasNext THEN FNat(timeSignatures[tsIndex + 2].ticks) ELSE FZero
      measureLen == FMul(ticksPerBeat(ppq, currentTS), currentTS[1])
      nextMeasureTick == FAdd(tickCursor, measureLen)
      cursor == IF hasNext /\ ~FLe(nextMeasureTick, nextTSTick)
                THEN nextTSTick ELSE nextMeasureTick
      advance == hasNext /\ FLe(nextTSTick, cursor)
      index == IF advance THEN tsIndex + 1 ELSE tsIndex
  IN [tickCursor |-> cursor, tsIndex |-> index,
      currentTS |-> IF advance /\ index + 1 <= Len(timeSignatures)
                    THEN timeSignatures[index + 1].timeSignature ELSE currentTS]

\* The loop of buildMeasures; each pass's result is bound before the next.
RECURSIVE BuildMeasuresFrom(_, _, _, _, _, _, _)
BuildMeasuresFrom(measures, tsIndex, currentTS, tickCursor, timeSignatures, durationTicks, ppq) ==
  IF ~FLe(tickCursor, FNat(durationTicks)) THEN measures
  ELSE LET pushed == Append(measures, [startTick |-> tickCursor, timeSignature |-> currentTS])
       IN CHOOSE res \in
            {IF FLe(s.tickCursor, tickCursor) THEN pushed
             ELSE BuildMeasuresFrom(pushed, s.tsIndex, s.currentTS, s.tickCursor,
                                    timeSignatures, durationTicks, ppq) :
               s \in {MeasureStep(tsIndex, currentTS, tickCursor, timeSignatures, ppq)}} : TRUE

buildMeasures(timeSignatures, durationTicks, ppq) ==
  BuildMeasuresFrom(<<>>, 0, timeSignatures[1].timeSignature, FZero, timeSignatures,
                    durationTicks, ppq)

\* segments that end where the next tempo event lies, wherever that is
RECURSIVE BuildSegmentsUnclamped(_, _, _, _, _, _)
BuildSegmentsUnclamped(segments, secondsCursor, tempos, i, durationTicks, ppq) ==
  IF i > Len(tempos) THEN segments
  ELSE LET cur == tempos[i]
           nextTick == IF i + 1 <= Len(tempos) THEN tempos[i + 1].ticks ELSE durationTicks
           endTick == Max2(cur.ticks, nextTick)
           seg == [startTick |-> cur.ticks, endTick |-> endTick, bpm |-> cur.bpm,
                   startSeconds |-> secondsCursor,
                   endSeconds |-> FAdd(secondsCursor,
                                       ticksToSecondsDelta(endTick - cur.ticks, cur.bpm, ppq))]
       IN IF endTick >= durationTicks THEN Append(segments, seg)
          ELSE BuildSegmentsUnclamped(Append(segments, seg), seg.endSeconds, tempos, i + 1,
                                      durationTicks, ppq)

RECURSIVE BuildSegmentsFrom(_, _, _, _, _, _)
BuildSegmentsFrom(segments, secondsCursor, tempos, i, durationTicks, ppq) ==
  IF i > Len(tempos) THEN segments
  ELSE LET cur == tempos[i]
           nextTick == IF i + 1 <= Len(tempos) THEN tempos[i + 1].ticks ELSE durationTicks
           startTick == cur.ticks
           endTick == Max2(startTick, Min2(nextTick, durationTicks))
           segSeconds == ticksToSecondsDelta(endTick - startTick, cur.bpm, ppq)
           seg == [startTick |-> startTick, endTick |-> endTick, bpm |-> cur.bpm,
                   startSeconds |-> secondsCursor,
                   endSeconds |-> FAdd(secondsCursor, segSeconds)]
       IN IF endTick >= durationTicks THEN Append(segments, seg)
          ELSE BuildSegmentsFrom(Append(segments, seg), seg.endSeconds, tempos, i + 1,
                                 durationTicks, ppq)

buildTempoSegments(tempos, durationTicks, ppq) ==
  BuildSegmentsFrom(<<>>, FZero, tempos, 1, durationTicks, ppq)

\* first index (from 0) where segments[i].startTick > tick
RECURSIVE UpperBoundTickFrom(_, _, _, _)
UpperBoundTickFrom(segments, tick, lo, hi) ==
  IF lo < hi
  THEN LET mid == (lo + hi) \div 2 IN
       IF segments[mid + 1].startTick <= tick
       THEN UpperBoundTickFrom(segments, tick, mid + 1, hi)
       ELSE UpperBoundTickFrom(segments, tick, lo, mid)
  ELSE lo

upperBoundByStartTick(segments, tick) == UpperBoundTickFrom(segments, tick, 0, Len(segments))

\* first index (from 0) where segments[i].startSeconds > seconds
RECURSIVE UpperBoundSecondsFrom(_, _, _, _)
UpperBoundSecondsFrom(segments, seconds, lo, hi) ==
  IF lo < hi
  THEN LET mid == (lo + hi) \div 2 IN
       IF FLe(segments[mid + 1].startSeconds, seconds)
       THEN UpperBoundSecondsFrom(segments, seconds, mid + 1, hi)
       ELSE UpperBoundSecondsFrom(segments, seconds, lo, mid)
  ELSE lo

upperBoundByStartSeconds(segments, seconds) ==
  UpperBoundSecondsFrom(segments, seconds, 0, Len(segments))

\* new MidiTiming(args)
MidiTiming(args) ==
  LET ppq == IF args.ppq > 0 THEN args.ppq ELSE DefaultPpq
      durationTicks == Max2(0, args.durationTicks)
      segments == buildTempoSegments(normalizeTempoEvents(ValidTempos(args.tempos)),
                                     durationTicks, ppq)
      measures == buildMeasures(normalizeTimeSignatureEvents(ValidTimeSignatures(args.timeSignatures)),
                                durationTicks, ppq)
  IN [ppq |-> ppq, durationTicks |-> durationTicks, tempoSegments |-> segments,
      durationSeconds |-> IF Len(segments) > 0 THEN segments[Len(segments)].endSeconds ELSE FZero,
      measures |-> measures]

ticksToSeconds(tm, ticks) ==
  LET t == Max2(0, Min2(tm.durationTicks, ticks))
      ub == upperBoundByStartTick(tm.tempoSegments, t)
      seg == tm.tempoSegments[Max2(0, ub - 1) + 1]
  IN FAdd(seg.startSeconds, ticksToSecondsDelta(t - seg.startTick, seg.bpm, tm.ppq))

\* the literal 1e-6
TickEpsilon == FDiv(FNat(1), FNat(1000000))

secondsToTicks(tm, seconds) ==
  LET s == FMax(FZero, FMin(tm.durationSeconds, seconds))
      ub == upperBoundByStartSeconds(tm.tempoSegments, s)
      seg == tm.tempoSegments[Max2(0, ub - 1) + 1]
      tickFloat == FAdd(FNat(seg.startTick),
                        secondsToTicksDelta(FSub(s, seg.startSeconds), seg.bpm, tm.ppq))
      tickInt == FFloor(FAdd(tickFloat, TickEpsilon))
  IN Max2(0, Min2(tm.durationTicks, tickInt))

\* ------------------------------------------------------------------ state
VARIABLES
  midi,                 \* the parsed sequence given to the constructor
  audioMode,            \* "midi" | "external"
  externalAudio,        \* [file, offsetMs], file = 0 for null
  disposed,
  playGeneration,
  transport,            \* [state, seconds] of Tone's transport
  pending,              \* the transport's scheduled callbacks, in firing order
  channels,             \* channel -> ChannelFx, created lazily
  outputGain,           \* the master gain
  externalPlayer,       \* [id, file, started], id = 0 for null
  externalFileKey,      \* 0 for null
  externalLoadKey,      \* 0 for null
  externalLoadPromise,  \* the load it is the promise of, 0 for null
  loads,                \* load -> [st, file, invalidated]: the async loads of
                        \* ensureExternalLoaded; invalidated records that
                        \* setAudioMode dropped the load key while it was in flight
  calls,                \* call -> [pc, gen, from, wait, touched]: playFrom
                        \* invocations; touched records that the call's own steps
                        \* have changed the engine
  ops,                  \* the effects of the last step on synths, gain and transport
  last,                 \* the last step: [act, call, outcome, cb]
  stale,                \* calls superseded since they were issued
  rpn,                  \* a run of derivePitchBendRange: [pc, input, sorted, i, r]
  timing,               \* a MidiTiming and a round trip through it
  compaction,           \* a run of compactInPlace: [pc, events, ..., sorted, i, kept]
  smoother,             \* a ChordSmoother and the updates it was given
  tracker               \* an ActiveNoteTracker and the last call it was given

engineVars ==
  <<midi, audioMode, externalAudio, disposed, playGeneration, transport, pending,
    channels, outputGain, externalPlayer, externalFileKey, externalLoadKey,
    externalLoadPromise, loads, calls, ops, last, stale>>

pureVars == <<rpn, timing, compaction, smoother, tracker>>

Calls == 1..MaxCalls
Loads == 1..MaxLoads
Files == 1..NumFiles

NoAudio == [file |-> 0, offsetMs |-> 0]
NoPlayer == [id |-> 0, file |-> 0, started |-> FALSE]
NoCb == Callback(0, "none", 0, 0, 0, FALSE)
IdleCall == [pc |-> "idle", gen |-> 0, from |-> 0, wait |-> 0, touched |-> FALSE]
FreeLoad == [st |-> "free", file |-> 0, invalidated |-> FALSE]

\* no derivation and no MidiTiming under way
RpnIdle == [pc |-> "idle", input |-> <<>>, sorted |-> <<>>, i |-> 0, r |-> RpnStart]
NoTiming == [ppq |-> 0, durationTicks |-> 0, tempoSegments |-> <<>>, durationSeconds |-> FZero,
             measures |-> <<>>]
\* the argument of a tick query before its clamp: ticks that are not finite
\* are the end when POSITIVE_INFINITY and 0 otherwise (whole ticks here)
TickInput(tm, ticks) ==
  IF NumberIsFinite(ticks) THEN MathFloor(ticks)
  ELSE IF ticks = PositiveInfinity THEN tm.durationTicks ELSE 0

\* the argument of secondsToTicks before its clamp; a negative number is
\* given as 0, which is what Math.max(0, ...) makes of it
SecondsInput(tm, seconds) ==
  IF NumberIsFinite(seconds)
  THEN IF seconds.halves < 0 THEN FZero ELSE FRound(LNat(seconds.halves), seconds.pow - 1)
  ELSE IF seconds = PositiveInfinity THEN tm.durationSeconds ELSE FZero

\* first index (from 0) where measures[i].startTick > tick
RECURSIVE UpperBoundMeasureFrom(_, _, _, _)
UpperBoundMeasureFrom(measures, tick, lo, hi) ==
  IF lo < hi
  THEN LET mid == (lo + hi) \div 2 IN
       IF FLe(measures[mid + 1].startTick, tick)
       THEN UpperBoundMeasureFrom(measures, tick, mid + 1, hi)
       ELSE UpperBoundMeasureFrom(measures, tick, lo, mid)
  ELSE lo

upperBoundMeasureStart(measures, tick) == UpperBoundMeasureFrom(measures, tick, 0, Len(measures))

\* Math.floor of a number, as a number
FloorOf(a) ==
  IF a.m = <<>> \/ a.e >= 0 THEN a ELSE FRound(LShr(a.m, 0 - a.e), 0)

\* Math.round of a number: the floor of the exact sum with one half
MathRound(a) ==
  CHOOSE r \in {IF x.e >= 0 THEN FRound(LAdd(x.a, x.b), x.e)
                ELSE FRound(LShr(LAdd(x.a, x.b), 0 - x.e), 0) :
                  x \in {FAligned(a, FRound(<<1>>, -1))}} : TRUE

\* the literal 0.999999
AlmostOne == FDiv(FNat(999999), FNat(1000000))

\* Each intermediate value of getBarBeatAtTicks is bound once it is computed:
\* the beat progress and subBeat1000 of a beat that starts beatTicks into the
\* measure; a ticksIntoBeat below 0 makes a beatProgress of 0
SubBeat1000(tpb, ticksIntoMeasure, beatTicks) ==
  LET beatProgress == IF FLe(beatTicks, ticksIntoMeasure)
                      THEN CHOOSE m \in {FMin(AlmostOne, q) :
                                           q \in {FDiv(FSub(ticksIntoMeasure, beatTicks), tpb)}} : TRUE
                      ELSE FZero
  IN CHOOSE sub \in {Min2(999, Max2(0, n)) :
                       n \in {FFloor(FMul(beatProgress, FNat(1000)))}} : TRUE

\* the position, given beatIndex0
BeatPosition(measureIndex, ts, tpb, ticksIntoMeasure, beatIndex0) ==
  [bar |-> measureIndex + 1, beat |-> FAdd(beatIndex0, FNat(1)),
   subBeat1000 |->
     CHOOSE sub \in {SubBeat1000(tpb, ticksIntoMeasure, beatTicks) :
                       beatTicks \in {FMul(beatIndex0, tpb)}} : TRUE,
   timeSignature |-> ts]

\* the position in the measure found; the floor is not below 0, so
\* Math.max(0, ...) keeps it
BeatInMeasure(measureIndex, ts, tpb, ticksIntoMeasure) ==
  CHOOSE pos \in
    {BeatPosition(measureIndex, ts, tpb, ticksIntoMeasure, beatIndex0) :
       beatIndex0 \in {CHOOSE m \in {FMin(FSub(ts[1], FNat(1)), FloorOf(q)) :
                                       q \in {FDiv(ticksIntoMeasure, tpb)}} : TRUE}} : TRUE

\* the position of the number t, a tick that need not be whole: the measure
\* found and the beat in it
BarBeatAt(tm, t) ==
  CHOOSE pos \in
    {BeatInMeasure(measureIndex, tm.measures[measureIndex + 1].timeSignature, tpb,
                   ticksIntoMeasure) :
       <<measureIndex, tpb, ticksIntoMeasure>> \in
         {<<i, ticksPerBeat(tm.ppq, tm.measures[i + 1].timeSignature),
            FSub(t, tm.measures[i + 1].startTick)>> :
            i \in {Max2(0, upperBoundMeasureStart(tm.measures, t) - 1)}}} : TRUE

\* the position of the whole tick t
BarBeatAtTick(tm, t) == BarBeatAt(tm, FNat(t))

\* a getBarBeatAtTicks for which the end is a tick like the others
getBarBeatAtTicksEndInclusive(tm, input) ==
  BarBeatAtTick(tm, Max2(0, Min2(tm.durationTicks, input)))

\* getBarBeatAtTicks(ticks) for the argument already made finite
getBarBeatAtTicks(tm, input) ==
  LET tClamped == Max2(0, Min2(tm.durationTicks, input))
      t == IF tm.durationTicks > 0 /\ tClamped = tm.durationTicks
           THEN tm.durationTicks - 1 ELSE tClamped
  IN BarBeatAtTick(tm, t)

\* the argument of getBarBeatAtTicks as a number, whole or not, before its
\* clamp; a negative number is given as 0, which is what Math.max(0, ...)
\* makes of it
TickNumber(tm, ticks) ==
  IF NumberIsFinite(ticks)
  THEN IF ticks.halves < 0 THEN FZero ELSE FRound(LNat(ticks.halves), ticks.pow - 1)
  ELSE IF ticks = PositiveInfinity THEN FNat(tm.durationTicks) ELSE FZero

\* getBarBeatAtTicks(ticks) for a number of ticks, whole or not
getBarBeatAtNumber(tm, input) ==
  LET tClamped == FMin(FNat(tm.durationTicks), input)
      t == IF tm.durationTicks > 0 /\ tClamped = FNat(tm.durationTicks)
           THEN FNat(tm.durationTicks - 1) ELSE tClamped
  IN BarBeatAt(tm, t)

getBarStartTick(tm, bar) ==
  LET b == IF NumberIsFinite(bar) THEN MathFloor(bar) ELSE 1
      idx == b - 1
  IN IF idx <= 0 THEN FZero
     ELSE IF idx >= Len(tm.measures) THEN FNat(tm.durationTicks)
     ELSE tm.measures[idx + 1].startTick

\* Math.max(1, Math.floor(x)) for a finite x, 1 otherwise
AtLeastOne(x) == IF NumberIsFinite(x) THEN Max2(1, MathFloor(x)) ELSE 1

getPageIndexForBar(bar, pageBars) == (AtLeastOne(bar) - 1) \div AtLeastOne(pageBars)

getPageRangeForBar(bar, pageBars) ==
  LET b == AtLeastOne(bar)
      bars == AtLeastOne(pageBars)
      pageIndex == getPageIndexForBar(Whole(b), Whole(bars))
      startBar == pageIndex * bars + 1
  IN [pageIndex |-> pageIndex, startBar |-> startBar, endBar |-> startBar + bars - 1]

\* a page whose end is the start of its own last bar
getPageTickRangeInclusive(tm, pageIndex, pageBars) ==
  LET pi == IF NumberIsFinite(pageIndex) THEN Max2(0, MathFloor(pageIndex)) ELSE 0
      bars == AtLeastOne(pageBars)
      startBar == pi * bars + 1
  IN [startTick |-> getBarStartTick(tm, Whole(startBar)),
      endTick |-> getBarStartTick(tm, Whole(startBar + bars - 1))]

getPageTickRange(tm, pageIndex, pageBars) ==
  LET pi == IF NumberIsFinite(pageIndex) THEN Max2(0, MathFloor(pageIndex)) ELSE 0
      bars == AtLeastOne(pageBars)
      startBar == pi * bars + 1
      endBarExclusive == startBar + bars
  IN [startTick |-> getBarStartTick(tm, Whole(startBar)),
      endTick |-> getBarStartTick(tm, Whole(endBarExclusive))]

\* steps of a measure of fixed length: the beats of the time signature
SeekStepsOfFixedMeasure(tm, pos, tpb, pageBars) ==
  CHOOSE step \in
    {[beat |-> FMax(FNat(1), MathRound(tpb)), bar |-> FMax(FNat(1), len),
      page |-> FMax(FNat(1), FMul(FNat(AtLeastOne(pageBars)), len))] :
       len \in {FMul(pos.timeSignature[1], tpb)}} : TRUE

\* the steps, given the position and its ticks per beat
SeekSteps(tm, pos, tpb, pageBars) ==
  LET barStartTick == getBarStartTick(tm, Whole(pos.bar))
      nextBarStartTick == getBarStartTick(tm, Whole(pos.bar + 1))
      pageIndex == getPageIndexForBar(Whole(pos.bar), pageBars)
      pageRange == getPageTickRange(tm, Whole(pageIndex), pageBars)
  IN CHOOSE step \in
       {[beat |-> FMax(FNat(1), d[1]), bar |-> FMax(FNat(1), d[2]),
         page |-> FMax(FNat(1), d[3])] :
          d \in {<<MathRound(tpb), FSub(nextBarStartTick, barStartTick),
                   FSub(pageRange.endTick, pageRange.startTick)>>}} : TRUE

getSeekStepTicksAtTicks(tm, input, pageBars) ==
  CHOOSE step \in
    {SeekSteps(tm, p[1], p[2], pageBars) :
       p \in {<<pos, ticksPerBeat(tm.ppq, pos.timeSignature)>> :
                pos \in {getBarBeatAtTicks(tm, input)}}} : TRUE

TimingIdle ==
  [pc |-> "idle",
   args |-> [ppq |-> 0, durationTicks |-> 0, tempos |-> <<>>, timeSignatures |-> <<>>],
   tm |-> NoTiming, t |-> 0, seconds |-> FZero, result |-> 0,
   call |-> [name |-> "none"], ret |-> 0]
\* ------------------------------------------------------------ ChordSmoother
switchDelayMs == 200
ncDelayMs == 300
NoChord == "N.C."
NoCandidate == [isNull |-> TRUE, value |-> ""]
Candidate(value) == [isNull |-> FALSE, value |-> value]

\* a raw chord name: its text and the spaces around it; trim leaves the text
RawChord(text, spaces) == [text |-> text, spaces |-> spaces]
Trim(raw) == raw.text
\* raw && raw.trim() ? raw.trim() : 'N.C.'
NextChord(raw) ==
  IF raw.text = "" /\ raw.spaces = 0 THEN NoChord
  ELSE IF Trim(raw) = "" THEN NoChord ELSE Trim(raw)

NewChordSmoother(initial) ==
  [current |-> initial, candidate |-> NoCandidate, candidateSinceMs |-> 0]

reset(value) == [current |-> value, candidate |-> NoCandidate, candidateSinceMs |-> 0]

\* an update that lets a new candidate inherit the time of the one before
updateKeepsTheTimer(s, raw, nowMs) ==
  LET next == NextChord(raw)
      delay == IF next = NoChord THEN ncDelayMs ELSE switchDelayMs
  IN IF next = s.current THEN [s EXCEPT !.candidate = NoCandidate]
     ELSE IF s.current = NoChord /\ next # NoChord
       THEN [s EXCEPT !.current = next, !.candidate = NoCandidate]
     ELSE IF s.candidate = NoCandidate
       THEN [s EXCEPT !.candidate = Candidate(next), !.candidateSinceMs = nowMs]
     ELSE IF s.candidate # Candidate(next)
       THEN [s EXCEPT !.candidate = Candidate(next)]
     ELSE IF nowMs - s.candidateSinceMs >= delay
       THEN [s EXCEPT !.current = next, !.candidate = NoCandidate]
     ELSE s

\* the smoother after update(raw, nowMs); the call returns its current
update(s, raw, nowMs) ==
  LET next == NextChord(raw)
      delay == IF next = NoChord THEN ncDelayMs ELSE switchDelayMs
  IN IF next = s.current THEN [s EXCEPT !.candidate = NoCandidate]
     ELSE IF s.current = NoChord /\ next # NoChord
       THEN [s EXCEPT !.current = next, !.candidate = NoCandidate]
     ELSE IF s.candidate # Candidate(next)
       THEN [s EXCEPT !.candidate = Candidate(next), !.candidateSinceMs = nowMs]
     ELSE IF nowMs - s.candidateSinceMs >= delay
       THEN [s EXCEPT !.current = next, !.candidate = NoCandidate]
     ELSE s

\* ------------------------------------------------------ ActiveNoteTracker
\* A note of a parsed track as buildEvents reads it; every field is a number.
\* Times and ticks of the inputs are whole.
TrackedNote(midiNo, time, endTime, ticks, endTicks) ==
  [midi |-> midiNo, time |-> time, endTime |-> endTime, ticks |-> ticks, endTicks |-> endTicks]
NoteEvent(time, midiNo, on) == [time |-> time, midi |-> midiNo, on |-> on]

NoteIsKept(n) ==
  /\ NumberIsFinite(n.time) /\ NumberIsFinite(n.endTime) /\ NumberIsFinite(n.midi)
  /\ NumberIsFinite(n.ticks) /\ NumberIsFinite(n.endTicks)
  /\ ~(WholeValue(n.endTime) <= WholeValue(n.time) \/ WholeValue(n.endTicks) <= WholeValue(n.ticks))

RECURSIVE NoteEventsOf(_)
NoteEventsOf(notes) ==
  IF notes = <<>> THEN <<>>
  ELSE LET n == Head(notes) IN
       (IF NoteIsKept(n)
        THEN <<NoteEvent(WholeValue(n.time), WholeValue(n.midi), TRUE),
               NoteEvent(WholeValue(n.endTime), WholeValue(n.midi), FALSE)>>
        ELSE <<>>) \o NoteEventsOf(Tail(notes))

RECURSIVE TrackEvents(_)
TrackEvents(tracks) ==
  IF tracks = <<>> THEN <<>>
  ELSE NoteEventsOf(Head(tracks).notes) \o TrackEvents(Tail(tracks))

\* the comparator of the sort is negative: by time, a note-off before a
\* note-on of the same time, then by pitch
NoteEventBefore(a, b) ==
  IF a.time # b.time THEN a.time < b.time
  ELSE IF a.on # b.on THEN ~a.on
  ELSE a.midi < b.midi

RECURSIVE InsertNoteEvent(_, _)
InsertNoteEvent(s, e) ==
  IF s = <<>> THEN <<e>>
  ELSE IF NoteEventBefore(e, s[Len(s)])
       THEN Append(InsertNoteEvent(SubSeq(s, 1, Len(s) - 1), e), s[Len(s)])
       ELSE Append(s, e)

RECURSIVE SortNoteEvents(_)
SortNoteEvents(s) ==
  IF s = <<>> THEN <<>>
  ELSE InsertNoteEvent(SortNoteEvents(SubSeq(s, 1, Len(s) - 1)), s[Len(s)])

buildEvents(tracks) == SortNoteEvents(TrackEvents(tracks))

\* trackIndices mapped to tracks, without the indices that name no track and,
\* unless includeDrums, without the drum tracks; indices count from 0
RECURSIVE PickTracks(_, _, _)
PickTracks(tracks, trackIndices, includeDrums) ==
  IF trackIndices = <<>> THEN <<>>
  ELSE LET i == Head(trackIndices)
           rest == PickTracks(tracks, Tail(trackIndices), includeDrums)
       IN IF i + 1 \in 1..Len(tracks)
          THEN IF includeDrums \/ ~tracks[i + 1].isDrum THEN <<tracks[i + 1]>> \o rest ELSE rest
          ELSE rest

\* counts is the Map: pitch -> count, over the pitches it has a key for
NewActiveNoteTracker(args) ==
  [events |-> buildEvents(PickTracks(args.midi.tracks, args.trackIndices, args.includeDrums)),
   index |-> 0, currentSeconds |-> 0, counts |-> <<>>]

CountOf(counts, m) == IF m \in DOMAIN counts THEN counts[m] ELSE 0

CountAfter(counts, ev) ==
  IF ev.on THEN (ev.midi :> (CountOf(counts, ev.midi) + 1)) @@ counts
  ELSE LET next == CountOf(counts, ev.midi) - 1 IN
       IF next <= 0 THEN [m \in DOMAIN counts \ {ev.midi} |-> counts[m]]
       ELSE (ev.midi :> next) @@ counts

RECURSIVE updateLoop(_, _)
updateLoop(t, s) ==
  IF t.index >= Len(t.events) THEN t
  ELSE LET ev == t.events[t.index + 1] IN
       IF ev.time > s THEN t
       ELSE updateLoop([t EXCEPT !.counts = CountAfter(@, ev), !.index = @ + 1], s)

\* an update that goes on from where it is when the time goes back
updateNeverRewinds(t, seconds) ==
  LET s == IF NumberIsFinite(seconds) THEN Max2(0, WholeValue(seconds)) ELSE 0
  IN [updateLoop(t, s) EXCEPT !.currentSeconds = s]

RECURSIVE seekTracker(_, _)
RECURSIVE updateTracker(_, _)
updateTracker(t, seconds) ==
  LET s == IF NumberIsFinite(seconds) THEN Max2(0, WholeValue(seconds)) ELSE 0
  IN IF s < t.currentSeconds THEN seekTracker(t, Whole(s))
     ELSE [updateLoop(t, s) EXCEPT !.currentSeconds = s]

seekTracker(t, seconds) ==
  LET s == IF NumberIsFinite(seconds) THEN seconds ELSE Whole(0)
  IN updateTracker([t EXCEPT !.counts = <<>>, !.index = 0, !.currentSeconds = 0], s)

RECURSIVE SortedPitches(_)
SortedPitches(set) ==
  IF set = {} THEN <<>>
  ELSE LET m == CHOOSE x \in set : \A y \in set : x <= y
       IN <<m>> \o SortedPitches(set \ {m})

getActiveMidiNotes(t) == SortedPitches(DOMAIN t.counts)

NoTrackerArgs == [midi |-> [tracks |-> <<>>], trackIndices |-> <<>>, includeDrums |-> FALSE]
TrackerIdle ==
  [pc |-> "idle", args |-> NoTrackerArgs, t |-> NewActiveNoteTracker(NoTrackerArgs),
   call |-> "", seconds |-> Whole(0), ret |-> <<>>]

\* no run of equal raw chords yet
NoRun == [next |-> "", start |-> 0, len |-> 0]
SmootherIdle ==
  [pc |-> "idle", s |-> NewChordSmoother(NoChord), now |-> 0,
   call |-> [raw |-> RawChord("", 0), nowMs |-> 0], before |-> NoChord, ret |-> NoChord,
   run |-> NoRun]

CompactIdle ==
  [pc |-> "idle", events |-> <<>>, minIntervalSec |-> 0, valueEpsilon |-> 0,
   sorted |-> <<>>, i |-> 0, kept |-> <<>>]

Step(act, call, outcome, cb) == [act |-> act, call |-> call, outcome |-> outcome, cb |-> cb]

isPlaying == transport.state = "started"
InFlight == {c \in Calls : calls[c].pc # "idle"}

\* ------------------------------------------------------- engine primitives
\* a releaseAllVoices that leaves the pedal bookkeeping alone
releaseAllVoicesKeepsPedal(chans) ==
  [ch \in DOMAIN chans |-> [chans[ch] EXCEPT !.voices = {}]]

\* a releaseAllVoices that lifts the pedal and keeps the sustained notes
releaseAllVoicesKeepsNotes(chans) ==
  [ch \in DOMAIN chans |->
     [chans[ch] EXCEPT !.state = [@ EXCEPT !.sustainDown = FALSE], !.voices = {}]]

\* releaseAllVoices: every channel's pedal up, no sustained notes, releaseAll
releaseAllVoices(chans) ==
  [ch \in DOMAIN chans |->
     [chans[ch] EXCEPT !.state = [@ EXCEPT !.sustainDown = FALSE, !.sustainedNotes = <<>>],
                       !.voices = {}]]

RECURSIVE ReleaseAllOps(_)
ReleaseAllOps(chs) ==
  IF chs = {} THEN <<>>
  ELSE LET ch == CHOOSE x \in chs : \A y \in chs : x <= y
       IN <<Op("releaseAll", ch, 0, 0, TRUE)>> \o ReleaseAllOps(chs \ {ch})

\* stopExternal
stopExternal(player) == IF player.id # 0 THEN [player EXCEPT !.started = FALSE] ELSE player

GainOps(v) == <<Op("gain.cancelScheduledValues", 0, 0, 0, TRUE),
                Op("gain.setValueAtTime", 0, v, 0, TRUE)>>

\* transport.pause() leaves a transport that is not started as it is
transportPause(t) == IF t.state = "started" THEN [t EXCEPT !.state = "paused"] ELSE t
transportStop(t) == [state |-> "stopped", seconds |-> 0]
transportStart(t, offset) == [state |-> "started", seconds |-> offset]

\* The part of the engine that pause(), playFrom() and the schedulers work on.
Core ==
  [gen |-> playGeneration, transport |-> transport, q |-> pending, chans |-> channels,
   gain |-> outputGain, player |-> externalPlayer, ops |-> <<>>]

SetCore(e) ==
  /\ playGeneration' = e.gen
  /\ transport' = e.transport
  /\ pending' = e.q
  /\ channels' = e.chans
  /\ outputGain' = e.gain
  /\ externalPlayer' = e.player
  /\ ops' = e.ops

PlayerStopOps(player) ==
  IF player.id # 0 THEN <<Op("player.stop", 0, player.id, 0, TRUE)>> ELSE <<>>

\* pause() after the generation increment
stopAndSilence(e) ==
  [gen |-> e.gen,
   transport |-> transportPause(e.transport),
   q |-> <<>>,
   chans |-> releaseAllVoices(e.chans),
   gain |-> 0,
   player |-> stopExternal(e.player),
   ops |-> e.ops \o <<Op("transport.pause", 0, 0, 0, TRUE), Op("transport.cancel", 0, 0, 0, TRUE)>>
             \o PlayerStopOps(e.player) \o ReleaseAllOps(DOMAIN e.chans) \o GainOps(0)]

\* a pause() that does not invalidate the playFrom calls in flight
pauseKeepsGeneration(e) == stopAndSilence(e)

pause(e) == stopAndSilence([e EXCEPT !.gen = @ + 1])

\* a restart that leaves the master gain as pause set it
playRestartKeepsGain(e) ==
  [gen |-> e.gen,
   transport |-> transportStop(e.transport),
   q |-> <<>>,
   chans |-> releaseAllVoices(e.chans),
   gain |-> e.gain,
   player |-> stopExternal(e.player),
   ops |-> e.ops \o <<Op("transport.stop", 0, 0, 0, TRUE), Op("transport.cancel", 0, 0, 0, TRUE)>>
             \o PlayerStopOps(e.player) \o ReleaseAllOps(DOMAIN e.chans)]

\* playFrom, from "Stop all scheduled events and restart cleanly" to the
\* restore of the master volume
playRestart(e) ==
  [gen |-> e.gen,
   transport |-> transportStop(e.transport),
   q |-> <<>>,
   chans |-> releaseAllVoices(e.chans),
   gain |-> 1,
   player |-> stopExternal(e.player),
   ops |-> e.ops \o <<Op("transport.stop", 0, 0, 0, TRUE), Op("transport.cancel", 0, 0, 0, TRUE)>>
             \o PlayerStopOps(e.player) \o ReleaseAllOps(DOMAIN e.chans) \o GainOps(1)]

startExternalAudio(e, mode, audio) ==
  IF mode # "external" THEN e
  ELSE IF e.player.id = 0 \/ audio.file = 0 THEN e
  ELSE [e EXCEPT !.player.started = TRUE,
                 !.ops = @ \o <<Op("player.start", 0, e.player.id, 0, TRUE)>>]

\* playFrom, from "const startAt = Tone.now()" to transport.start; the
\* generation and disposed checks before it are the caller's
scheduleAndStart(e, mode, audio, song, fromSeconds) ==
  LET start == Max2(0, fromSeconds)
      e1 == IF mode = "midi"
            THEN scheduleMidiNotes(scheduleMidiAutomation(e, song, start), song, start)
            ELSE startExternalAudio(e, mode, audio)
  IN [e1 EXCEPT !.transport = transportStart(@, start),
                !.ops = @ \o <<Op("transport.start", 0, 0, start, TRUE)>>]

\* ---------------------------------------------------------------- playFrom
\* what a caller observes of the engine: transport run-state and position,
\* pending callbacks, channels, master gain, external player
Observed(e) == <<e.transport, e.q, e.chans, e.gain, e.player>>
Touches(e) == Observed(e) # Observed(Core)

Finish(c) == [calls EXCEPT ![c] = IdleCall]
Waiters(l) == {c \in Calls : calls[c].pc = "awaitLoad" /\ calls[c].wait = l}

\* playFrom(s), up to its first await (ensureStarted)
PlayFromCall(c, s) ==
  /\ calls[c].pc = "idle"
  /\ \A d \in Calls : calls[d].pc = "idle" => c <= d     \* call ids are only names
  /\ IF disposed
     THEN /\ last' = Step("playFrom", c, "return", NoCb)
          /\ UNCHANGED <<playGeneration, calls, stale>>
     ELSE /\ playGeneration < MaxGen
          /\ playGeneration' = playGeneration + 1
          /\ calls' = [calls EXCEPT ![c] = [pc |-> "awaitStart", gen |-> playGeneration + 1,
                                            from |-> s, wait |-> 0, touched |-> FALSE]]
          /\ stale' = stale \cup InFlight
          /\ last' = Step("playFrom", c, "await", NoCb)
  /\ ops' = <<>>
  /\ UNCHANGED <<midi, audioMode, externalAudio, disposed, transport, pending, channels,
                 outputGain, externalPlayer, externalFileKey, externalLoadKey,
                 externalLoadPromise, loads>>
  /\ UNCHANGED pureVars

\* the continuation after ensureStarted: a superseded call returns
PlayFromStale(c) ==
  /\ calls[c].pc = "awaitStart"
  /\ disposed \/ calls[c].gen # playGeneration
  /\ calls' = Finish(c)
  /\ stale' = stale \ {c}
  /\ last' = Step("playFrom.started", c, "return", NoCb)
  /\ ops' = <<>>
  /\ UNCHANGED <<midi, audioMode, externalAudio, disposed, playGeneration, transport, pending,
                 channels, outputGain, externalPlayer, externalFileKey, externalLoadKey,
                 externalLoadPromise, loads>>
  /\ UNCHANGED pureVars

\* the continuation after ensureStarted in MIDI mode: no further await
PlayFromMidi(c) ==
  /\ calls[c].pc = "awaitStart"
  /\ ~disposed /\ calls[c].gen = playGeneration
  /\ audioMode # "external"
  /\ SetCore(scheduleAndStart(playRestart(Core), audioMode, externalAudio, midi, calls[c].from))
  /\ calls' = Finish(c)
  /\ stale' = stale \ {c}
  /\ last' = Step("playFrom.started", c, "started", NoCb)
  /\ UNCHANGED <<midi, audioMode, externalAudio, disposed, externalFileKey, externalLoadKey,
                 externalLoadPromise, loads>>
  /\ UNCHANGED pureVars

\* the continuation after ensureStarted in external mode, up to the await of
\* ensureExternalLoaded
PlayFromExternal(c) ==
  /\ calls[c].pc = "awaitStart"
  /\ ~disposed /\ calls[c].gen = playGeneration
  /\ audioMode = "external"
  /\ SetCore(playRestart(Core))
  /\ UNCHANGED <<midi, audioMode, externalAudio, disposed, externalFileKey>>
  /\ LET fileKey == externalAudio.file IN
     \/ /\ fileKey = 0                       \* throw: 'External audio mode requires a file.'
        /\ calls' = Finish(c)
        /\ stale' = stale \ {c}
        /\ last' = Step("playFrom.started", c, "rejected", NoCb)
        /\ UNCHANGED <<externalLoadKey, externalLoadPromise, loads>>
     \/ /\ fileKey # 0
        /\ externalPlayer.id # 0 /\ externalFileKey = fileKey
        /\ calls' = [calls EXCEPT ![c].pc = "awaitLoad", ![c].wait = 0,
                                  ![c].touched = Touches(playRestart(Core))]
        /\ UNCHANGED stale
        /\ last' = Step("playFrom.started", c, "await", NoCb)
        /\ UNCHANGED <<externalLoadKey, externalLoadPromise, loads>>
     \/ /\ fileKey # 0
        /\ ~(externalPlayer.id # 0 /\ externalFileKey = fileKey)
        /\ externalLoadPromise # 0 /\ externalLoadKey = fileKey
        /\ calls' = [calls EXCEPT ![c].pc = "awaitLoad", ![c].wait = externalLoadPromise,
                                  ![c].touched = Touches(playRestart(Core))]
        /\ UNCHANGED stale
        /\ last' = Step("playFrom.started", c, "await", NoCb)
        /\ UNCHANGED <<externalLoadKey, externalLoadPromise, loads>>
     \/ /\ fileKey # 0
        /\ ~(externalPlayer.id # 0 /\ externalFileKey = fileKey)
        /\ ~(externalLoadPromise # 0 /\ externalLoadKey = fileKey)
        /\ \E l \in Loads :
             /\ loads[l].st = "free"
             /\ \A k \in Loads : loads[k].st = "free" => l <= k
             /\ loads' = [loads EXCEPT ![l] = [st |-> "loading", file |-> fileKey,
                                               invalidated |-> FALSE]]
             /\ externalLoadKey' = fileKey
             /\ externalLoadPromise' = l
             /\ calls' = [calls EXCEPT ![c].pc = "awaitLoad", ![c].wait = l,
                                       ![c].touched = Touches(playRestart(Core))]
        /\ UNCHANGED stale
        /\ last' = Step("playFrom.started", c, "await", NoCb)
  /\ UNCHANGED pureVars

LoadSettled(l) == IF l = 0 THEN TRUE ELSE loads[l].st \in {"resolved", "rejected"}
\* a settled load with no call left awaiting it is garbage
Collect(c) ==
  LET l == calls[c].wait IN
  IF l # 0 /\ Waiters(l) = {c} THEN [loads EXCEPT ![l] = FreeLoad] ELSE loads

\* a continuation that swallows the failure of the load
afterLoadIgnoresFailure(c) ==
  IF calls[c].gen # playGeneration \/ disposed THEN "return" ELSE "started"

\* how playFrom goes on after "await this.ensureExternalLoaded()": the
\* rejection of the awaited load is the rejection of playFrom
LoadFailed(c) == IF calls[c].wait = 0 THEN FALSE ELSE loads[calls[c].wait].st = "rejected"

\* a continuation that gives up when it had to wait for a load
afterLoadGivesUp(c) ==
  IF LoadFailed(c) THEN "rejected"
  ELSE IF calls[c].gen # playGeneration \/ disposed \/ calls[c].wait # 0 THEN "return"
  ELSE "started"

afterLoad(c) ==
  IF LoadFailed(c) THEN "rejected"
  ELSE IF calls[c].gen # playGeneration \/ disposed THEN "return" ELSE "started"

\* the continuation after ensureExternalLoaded
PlayFromLoaded(c) ==
  /\ calls[c].pc = "awaitLoad"
  /\ LoadSettled(calls[c].wait)
  /\ calls' = Finish(c)
  /\ stale' = stale \ {c}
  /\ loads' = Collect(c)
  /\ UNCHANGED <<midi, audioMode, externalAudio, disposed, externalFileKey, externalLoadKey,
                 externalLoadPromise>>
  /\ IF afterLoad(c) = "rejected"
     THEN /\ last' = Step("playFrom.loaded", c, "rejected", NoCb)
          /\ ops' = <<>>
          /\ UNCHANGED <<playGeneration, transport, pending, channels, outputGain, externalPlayer>>
     ELSE IF afterLoad(c) = "return"
     THEN /\ last' = Step("playFrom.loaded", c, "return", NoCb)
          /\ ops' = <<>>
          /\ UNCHANGED <<playGeneration, transport, pending, channels, outputGain, externalPlayer>>
     ELSE /\ SetCore(scheduleAndStart(Core, audioMode, externalAudio, midi, calls[c].from))
          /\ last' = Step("playFrom.loaded", c, "started", NoCb)
  /\ UNCHANGED pureVars

\* ------------------------------------------------------ the external load
\* the async body of ensureExternalLoaded after "await player.load(url)"
LoadSettle(l, ok) ==
  /\ loads[l].st = "loading"
  /\ IF ~ok
     THEN /\ loads' = [loads EXCEPT ![l].st = "failed"]
          /\ UNCHANGED <<externalPlayer, externalFileKey>>
          /\ ops' = <<>>
          /\ last' = Step("load", l, "failed", NoCb)
     ELSE IF disposed \/ externalLoadKey # loads[l].file
     THEN /\ loads' = [loads EXCEPT ![l].st = "settled"]
          /\ UNCHANGED <<externalPlayer, externalFileKey>>
          /\ ops' = <<>>
          /\ last' = Step("load", l, "discarded", NoCb)
     ELSE /\ loads' = [loads EXCEPT ![l].st = "settled"]
          /\ externalPlayer' = [id |-> l, file |-> loads[l].file, started |-> FALSE]
          /\ externalFileKey' = loads[l].file
          /\ ops' = PlayerStopOps(externalPlayer)
          /\ last' = Step("load", l, "installed", NoCb)
  /\ UNCHANGED <<midi, audioMode, externalAudio, disposed, playGeneration, transport, pending,
                 channels, outputGain, externalLoadKey, externalLoadPromise, calls, stale>>
  /\ UNCHANGED pureVars

\* its finally(): the promise is cleared if it is still the current one
LoadFinally(l) ==
  /\ loads[l].st \in {"settled", "failed"}
  /\ loads' = [loads EXCEPT ![l].st = IF loads[l].st = "settled" THEN "resolved" ELSE "rejected"]
  /\ externalLoadPromise' = IF externalLoadPromise = l THEN 0 ELSE externalLoadPromise
  /\ ops' = <<>>
  /\ last' = Step("load.finally", l, "done", NoCb)
  /\ UNCHANGED <<midi, audioMode, externalAudio, disposed, playGeneration, transport, pending,
                 channels, outputGain, externalPlayer, externalFileKey, externalLoadKey,
                 calls, stale>>
  /\ UNCHANGED pureVars

\* ------------------------------------------------------------------- pause
Pause ==
  /\ playGeneration < MaxGen
  /\ SetCore(pause(Core))
  /\ stale' = stale \cup InFlight
  /\ last' = Step("pause", 0, "done", NoCb)
  /\ UNCHANGED <<midi, audioMode, externalAudio, disposed, externalFileKey, externalLoadKey,
                 externalLoadPromise, loads, calls>>
  /\ UNCHANGED pureVars

\* ------------------------------------------------------------ setAudioMode
FileKey(a) == a.file                    \* name:size:lastModified, 0 for null
FullKey(a) == <<a.file, a.offsetMs>>    \* ... :offsetMs

\* a restart on a change of mode only
needsRestartModeOnly(mode, next) == mode # audioMode

needsRestart(mode, next) ==
  mode # audioMode \/ (mode = "external" /\ FullKey(externalAudio) # FullKey(next))

\* "drop the old decoded buffer": stop, disconnect and dispose the player
dropPlayer(e) ==
  [e EXCEPT !.player = NoPlayer, !.ops = @ \o PlayerStopOps(e.player)]

SetAudioMode(mode, next) ==
  /\ IF disposed
     THEN /\ last' = Step("setAudioMode", 0, "return", NoCb)
          /\ ops' = <<>>
          /\ UNCHANGED <<audioMode, externalAudio, playGeneration, transport, pending, channels,
                         outputGain, externalPlayer, externalFileKey, externalLoadKey,
                         externalLoadPromise, stale, loads>>
     ELSE LET restart == needsRestart(mode, next)
              fileChanged == mode = "external" /\ next.file # 0
                             /\ FileKey(externalAudio) # FileKey(next)
              leaving == mode # "external" \/ next.file = 0
              e1 == IF restart THEN pause(Core) ELSE Core
              e2 == IF fileChanged THEN dropPlayer(e1) ELSE e1
              e3 == IF leaving THEN dropPlayer(e2) ELSE e2
          IN /\ restart => playGeneration < MaxGen
             /\ audioMode' = mode
             /\ externalAudio' = next
             /\ SetCore(e3)
             /\ externalLoadKey' = IF fileChanged \/ leaving THEN 0 ELSE externalLoadKey
             /\ externalLoadPromise' = IF fileChanged \/ leaving THEN 0 ELSE externalLoadPromise
             /\ externalFileKey' = IF fileChanged \/ leaving THEN 0 ELSE externalFileKey
             /\ stale' = IF restart THEN stale \cup InFlight ELSE stale
             /\ last' = Step("setAudioMode", 0, IF restart THEN "restart" ELSE "kept", NoCb)
             /\ loads' = [l \in Loads |->
                            IF (fileChanged \/ leaving) /\ loads[l].st = "loading"
                            THEN [loads[l] EXCEPT !.invalidated = TRUE] ELSE loads[l]]
  /\ UNCHANGED <<midi, disposed, calls>>
  /\ UNCHANGED pureVars

\* ------------------------------------------------------ setPositionSeconds
\* if (this.isPlaying()) this.pause(); transport.seconds = Math.max(0, seconds)
SetPositionSeconds(seconds) ==
  /\ isPlaying => playGeneration < MaxGen
  /\ LET e1 == IF isPlaying THEN pause(Core) ELSE Core
     IN SetCore([e1 EXCEPT !.transport.seconds = Max2(0, seconds)])
  /\ stale' = IF isPlaying THEN stale \cup InFlight ELSE stale
  /\ last' = Step("setPositionSeconds", 0, IF isPlaying THEN "paused" ELSE "set", NoCb)
  /\ UNCHANGED <<midi, audioMode, externalAudio, disposed, externalFileKey, externalLoadKey,
                 externalLoadPromise, loads, calls>>
  /\ UNCHANGED pureVars

\* ----------------------------------------------------------------- dispose
Dispose ==
  /\ ~disposed
  /\ playGeneration + 2 <= MaxGen
  /\ disposed' = TRUE
  /\ LET e1 == pause([Core EXCEPT !.gen = @ + 1])
         e2 == [e1 EXCEPT !.transport = transportStop(@), !.q = <<>>,
                          !.player = NoPlayer, !.chans = <<>>,
                          !.ops = @ \o <<Op("transport.stop", 0, 0, 0, TRUE),
                                         Op("transport.cancel", 0, 0, 0, TRUE)>>]
     IN SetCore(e2)
  /\ externalFileKey' = 0
  /\ stale' = stale \cup InFlight
  /\ last' = Step("dispose", 0, "done", NoCb)
  /\ UNCHANGED <<midi, audioMode, externalAudio, externalLoadKey, externalLoadPromise,
                 loads, calls>>
  /\ UNCHANGED pureVars

\* ------------------------------------------------- the scheduled callbacks
\* Each takes the ChannelFx it closed over and gives [fx, ops].
FxAfter(fx, st, o, ch) ==
  [fx |-> [fx EXCEPT !.state = st, !.voices = VoicesAfter(@, ch, o)], ops |-> o]

\* a note-on that attacks without looking at sustainedNotes
noteOnOnlyAttacks(fx, cb, mode) ==
  IF mode # "midi" THEN [fx |-> fx, ops |-> <<>>]
  ELSE IF cb.drum THEN [fx |-> fx, ops |-> <<Op("drumKit.trigger", cb.ch, cb.key, cb.time, FALSE)>>]
  ELSE FxAfter(fx, fx.state, <<Op("triggerAttack", cb.ch, cb.key, cb.time, FALSE)>>, cb.ch)

noteOnCallback(fx, cb, mode) ==
  IF mode # "midi" THEN [fx |-> fx, ops |-> <<>>]
  ELSE IF cb.drum THEN [fx |-> fx, ops |-> <<Op("drumKit.trigger", cb.ch, cb.key, cb.time, FALSE)>>]
  ELSE LET st == fx.state
           held == cb.key \in SeqToSet(st.sustainedNotes)
           st1 == IF held THEN [st EXCEPT !.sustainedNotes = SeqWithout(@, cb.key)] ELSE st
           o == (IF held THEN <<Op("triggerRelease", cb.ch, cb.key, cb.time, FALSE)>> ELSE <<>>)
                \o <<Op("triggerAttack", cb.ch, cb.key, cb.time, FALSE)>>
       IN FxAfter(fx, st1, o, cb.ch)

\* a note-off that releases whatever the pedal does
noteOffIgnoresPedal(fx, cb, mode) ==
  IF mode # "midi" THEN [fx |-> fx, ops |-> <<>>]
  ELSE FxAfter(fx, fx.state, <<Op("triggerRelease", cb.ch, cb.key, cb.time, FALSE)>>, cb.ch)

noteOffCallback(fx, cb, mode) ==
  IF mode # "midi" THEN [fx |-> fx, ops |-> <<>>]
  ELSE LET st == fx.state IN
       IF st.sustainDown
       THEN FxAfter(fx, [st EXCEPT !.sustainedNotes = SeqAdd(@, cb.key)], <<>>, cb.ch)
       ELSE FxAfter(fx, st, <<Op("triggerRelease", cb.ch, cb.key, cb.time, FALSE)>>, cb.ch)

automationCallback(fx, cb) ==
  FxAfter([fx EXCEPT !.detune = DetuneAfter(@, ApplyAuto(fx.state, cb.kind, cb.value), cb.kind),
                     !.vibrato = VibratoAfter(@, ApplyAuto(fx.state, cb.kind, cb.value), cb.kind)],
          ApplyAuto(fx.state, cb.kind, cb.value),
          ApplyOps(fx.state, cb.kind, cb.value, cb.ch, cb.time, FALSE), cb.ch)

RunCallback(fx, cb, mode) ==
  IF cb.kind = "noteOn" THEN noteOnCallback(fx, cb, mode)
  ELSE IF cb.kind = "noteOff" THEN noteOffCallback(fx, cb, mode)
  ELSE automationCallback(fx, cb)

\* The transport fires the next due callback.
Fire ==
  /\ isPlaying
  /\ pending # <<>>
  /\ LET cb == Head(pending)
         known == cb.ch \in DOMAIN channels
         r == RunCallback(IF known THEN channels[cb.ch] ELSE NewChannelFx, cb, audioMode)
     IN /\ channels' = IF known THEN [channels EXCEPT ![cb.ch] = r.fx] ELSE channels
        /\ ops' = r.ops
        /\ last' = Step("fire", 0, "done", cb)
        /\ transport' = [transport EXCEPT !.seconds = cb.time]
  /\ pending' = Tail(pending)
  /\ UNCHANGED <<midi, audioMode, externalAudio, disposed, playGeneration, outputGain,
                 externalPlayer, externalFileKey, externalLoadKey, externalLoadPromise,
                 loads, calls, stale>>
  /\ UNCHANGED pureVars

\* --------------------------------------------------------------- sequences
Note(midiNo, time, endTime) == [midi |-> midiNo, time |-> time, endTime |-> endTime]
Cc(controller, time, value) == [controller |-> controller, time |-> time, value |-> value]
Pt(time, value) == [time |-> time, value |-> value]
At(channel, time, value) == [channel |-> channel, time |-> time, value |-> value]
Track(channel, isDrum, notes, pitchBends, controlChanges, channelAftertouch, noteAftertouch) ==
  [channel |-> channel, isDrum |-> isDrum, notes |-> notes, pitchBends |-> pitchBends,
   controlChanges |-> controlChanges, channelAftertouch |-> channelAftertouch,
   noteAftertouch |-> noteAftertouch]

\* One note that ends under the pedal.
HeldNoteSong ==
  [tracks |-> <<
     Track(0, FALSE, <<Note(60, 0, 2)>>, <<>>, <<Cc(64, 1, 127)>>, <<>>, <<>>) >>]

\* A pedalled phrase: 60 ends with the pedal up; 62 ends under the pedal, is
\* struck again while held and ends under the pedal once more; 64 ends under
\* the pedal too; the pedal is pressed twice and lifted twice.  A drum hit on
\* channel 9.
PedalSong ==
  [tracks |-> <<
     Track(0, FALSE,
           <<Note(60, 0, 2), Note(62, 1, 4), Note(62, 5, 6), Note(64, 3, 6)>>,
           <<>>,
           <<Cc(64, 3, 127), Cc(64, 4, 100), Cc(64, 7, 0), Cc(64, 8, 10)>>,
           <<>>, <<>>),
     Track(9, TRUE, <<Note(36, 2, 3)>>, <<>>, <<>>, <<>>, <<>>) >>]

\* RPN 0,0 with a data entry of 12 semitones, later 50 cents, and a bend.
RpnSong ==
  [tracks |-> <<
     Track(1, FALSE, <<>>, <<Pt(2, 4096)>>,
           <<Cc(101, 0, 0), Cc(100, 0, 0), Cc(6, 0, 12), Cc(38, 1, 50), Cc(101, 2, 127),
             Cc(6, 2, 24)>>,
           <<>>, <<>>) >>]

\* Two tracks of one channel, and a drum track whose aftertouch events name
\* another channel (its controllers are not gathered).
MergeSong ==
  [tracks |-> <<
     Track(0, FALSE, <<>>, <<>>, <<Cc(7, 2, 64), Cc(10, 0, 0)>>, <<>>, <<>>),
     Track(0, FALSE, <<>>, <<>>, <<Cc(7, 0, 100), Cc(11, 2, 32)>>, <<>>, <<>>),
     Track(9, TRUE, <<Note(36, 1, 2)>>, <<>>, <<Cc(7, 0, 5)>>,
           <<At(3, 1, 100)>>, <<At(3, 2, 50)>>) >>]

\* A volume fade whose two points are 1/60 s apart.
FadeSong ==
  [tracks |-> <<Track(0, FALSE, <<>>, <<>>, <<Cc(7, 0, 0), Cc(7, 1, 127)>>, <<>>, <<>>)>>]

\* Generated sequences: one stream of up to MaxPoints points on channel 0.
PointSeqs(values) ==
  UNION {[1..n -> {Pt(t, v) : t \in 0..MaxTime, v \in values}] : n \in 1..MaxPoints}

RECURSIVE CcSeq(_, _)
CcSeq(controller, pts) ==
  IF pts = <<>> THEN <<>>
  ELSE <<Cc(controller, Head(pts).time, Head(pts).value)>> \o CcSeq(controller, Tail(pts))

CcValues == {0, 1, 127}
BendValues == {0, 1, 0 - 8192}
PlainControllers == {1, 92, 7, 11, 10, 64}

StreamSongs ==
  {[tracks |-> <<Track(0, FALSE, <<>>, pts, <<>>, <<>>, <<>>)>>] : pts \in PointSeqs(BendValues)}
  \cup
  {[tracks |-> <<Track(0, FALSE, <<>>, <<>>, CcSeq(c, pts), <<>>, <<>>)>>] :
     c \in PlainControllers, pts \in PointSeqs(CcValues)}

PlaySongs == {PedalSong, RpnSong, MergeSong, FadeSong} \cup StreamSongs

EngineSongs == {HeldNoteSong}

ExternalChoices ==
  {NoAudio} \cup {[file |-> f, offsetMs |-> o] : f \in Files, o \in 0..MaxOffset}

\* -------------------------------------------------------------------- Init
\* The state the constructor leaves: a stopped transport with nothing
\* scheduled, no channel, gain 1, nothing loaded.
EngineInit ==
  /\ midi \in EngineSongs
  /\ audioMode \in {"midi", "external"}
  /\ externalAudio \in ExternalChoices
  /\ disposed = FALSE
  /\ playGeneration = 0
  /\ transport = [state |-> "stopped", seconds |-> 0]
  /\ pending = <<>>
  /\ channels = <<>>
  /\ outputGain = 1
  /\ externalPlayer = NoPlayer
  /\ externalFileKey = 0
  /\ externalLoadKey = 0
  /\ externalLoadPromise = 0
  /\ loads = [l \in Loads |-> FreeLoad]
  /\ calls = [c \in Calls |-> IdleCall]
  /\ ops = <<>>
  /\ last = Step("new", 0, "done", NoCb)
  /\ stale = {}
  /\ rpn = RpnIdle
  /\ timing = TimingIdle
  /\ compaction = CompactIdle
  /\ smoother = SmootherIdle
  /\ tracker = TrackerIdle

vars == <<engineVars, pureVars>>

Init == EngineInit

Next ==
  \/ \E c \in Calls, s \in 0..MaxFrom : PlayFromCall(c, s)
  \/ \E c \in Calls : PlayFromStale(c)
  \/ \E c \in Calls : PlayFromMidi(c)
  \/ \E c \in Calls : PlayFromExternal(c)
  \/ \E c \in Calls : PlayFromLoaded(c)
  \/ \E l \in Loads, ok \in BOOLEAN : LoadSettle(l, ok)
  \/ \E l \in Loads : LoadFinally(l)
  \/ Pause
  \/ \E mode \in {"midi", "external"}, next \in ExternalChoices : SetAudioMode(mode, next)
  \/ Dispose
  \/ Fire

Spec == Init /\ [][Next]_vars

\* The engine under fair completion of what is asynchronous: a continuation
\* runs once the promise it awaits has settled, and a load once begun settles
\* (resolved or rejected) and runs its finally().  Calls from outside
\* (playFrom, pause, setAudioMode, dispose) and the clock are under no
\* such condition.
Fairness ==
  /\ \A c \in Calls : /\ WF_vars(PlayFromStale(c))
                      /\ WF_vars(PlayFromMidi(c))
                      /\ WF_vars(PlayFromExternal(c))
                      /\ WF_vars(PlayFromLoaded(c))
  /\ \A l \in Loads : /\ WF_vars(\E ok \in BOOLEAN : LoadSettle(l, ok))
                      /\ WF_vars(LoadFinally(l))

\* The calls and loads of the engine specification with one file to choose
\* and a sequence without tracks; the callbacks, which do not bear on a
\* call's progress, are left out.
LiveChoices == {NoAudio, [file |-> 1, offsetMs |-> 0]}
EmptySong == [tracks |-> <<>>]

LiveInit ==
  /\ midi = EmptySong
  /\ audioMode \in {"midi", "external"}
  /\ externalAudio \in LiveChoices
  /\ disposed = FALSE
  /\ playGeneration = 0
  /\ transport = [state |-> "stopped", seconds |-> 0]
  /\ pending = <<>>
  /\ channels = <<>>
  /\ outputGain = 1
  /\ externalPlayer = NoPlayer
  /\ externalFileKey = 0
  /\ externalLoadKey = 0
  /\ externalLoadPromise = 0
  /\ loads = [l \in Loads |-> FreeLoad]
  /\ calls = [c \in Calls |-> IdleCall]
  /\ ops = <<>>
  /\ last = Step("new", 0, "done", NoCb)
  /\ stale = {}
  /\ rpn = RpnIdle
  /\ timing = TimingIdle
  /\ compaction = CompactIdle
  /\ smoother = SmootherIdle
  /\ tracker = TrackerIdle

\* resume points: a negative one, which is clamped to 0, and a later one
LiveFrom == {0 - 1, MaxFrom}

LiveNext ==
  \/ \E c \in Calls, s \in LiveFrom : PlayFromCall(c, s)
  \/ \E c \in Calls : PlayFromStale(c)
  \/ \E c \in Calls : PlayFromMidi(c)
  \/ \E c \in Calls : PlayFromExternal(c)
  \/ \E c \in Calls : PlayFromLoaded(c)
  \/ \E l \in Loads, ok \in BOOLEAN : LoadSettle(l, ok)
  \/ \E l \in Loads : LoadFinally(l)
  \/ Pause
  \/ \E mode \in {"midi", "external"}, next \in LiveChoices : SetAudioMode(mode, next)
  \/ Dispose

SpecLive == LiveInit /\ [][LiveNext]_vars /\ Fairness

\* The playback specification: one playFrom at a time in MIDI mode, over
\* every sequence of PlaySongs.
PlayInit ==
  /\ midi \in PlaySongs
  /\ audioMode = "midi"
  /\ externalAudio = NoAudio
  /\ disposed = FALSE
  /\ playGeneration = 0
  /\ transport = [state |-> "stopped", seconds |-> 0]
  /\ pending = <<>>
  /\ channels = <<>>
  /\ outputGain = 1
  /\ externalPlayer = NoPlayer
  /\ externalFileKey = 0
  /\ externalLoadKey = 0
  /\ externalLoadPromise = 0
  /\ loads = [l \in Loads |-> FreeLoad]
  /\ calls = [c \in Calls |-> IdleCall]
  /\ ops = <<>>
  /\ last = Step("new", 0, "done", NoCb)
  /\ stale = {}
  /\ rpn = RpnIdle
  /\ timing = TimingIdle
  /\ compaction = CompactIdle
  /\ smoother = SmootherIdle
  /\ tracker = TrackerIdle

\* Mod wheel and aftertouch on one channel: two CC1 points, two channel
\* aftertouch points and a note aftertouch point between them, in two
\* orders, each with a value of 0, 50/127 or above 1.
VibratoValues == {0, 50, 130}
VibratoSongs ==
  {[tracks |-> <<Track(0, FALSE, <<>>, <<>>,
                      <<Cc(1, 1 - k, v[1]), Cc(1, 4 - k, v[2])>>,
                      <<At(0, 2 + k, v[3]), At(0, 5 + k, v[4])>>,
                      <<At(0, 3, v[5])>>)>>] :
     k \in {0, 1}, v \in [1..5 -> VibratoValues]}

VibratoInit ==
  /\ midi \in VibratoSongs
  /\ audioMode = "midi"
  /\ externalAudio = NoAudio
  /\ disposed = FALSE
  /\ playGeneration = 0
  /\ transport = [state |-> "stopped", seconds |-> 0]
  /\ pending = <<>>
  /\ channels = <<>>
  /\ outputGain = 1
  /\ externalPlayer = NoPlayer
  /\ externalFileKey = 0
  /\ externalLoadKey = 0
  /\ externalLoadPromise = 0
  /\ loads = [l \in Loads |-> FreeLoad]
  /\ calls = [c \in Calls |-> IdleCall]
  /\ ops = <<>>
  /\ last = Step("new", 0, "done", NoCb)
  /\ stale = {}
  /\ rpn = RpnIdle
  /\ timing = TimingIdle
  /\ compaction = CompactIdle
  /\ smoother = SmootherIdle
  /\ tracker = TrackerIdle

PlayNext ==
  \/ \E s \in 0..MaxResume : PlayFromCall(1, s)
  \/ PlayFromStale(1)
  \/ PlayFromMidi(1)
  \/ Pause
  \/ Fire

SpecPlay == PlayInit /\ [][PlayNext]_vars

SpecVibrato == VibratoInit /\ [][PlayNext]_vars

\* ------------------------------------ the handlers, statement by statement
\* The synchronous bodies of playFrom (after ensureStarted), pause and
\* setAudioMode as the statements they run, in the order of the code.  A
\* handler runs to completion: while one is under way nothing else steps.
\* External mode is entered without a file here, so ensureExternalLoaded
\* throws and playFrom rejects after its restart.

\* a pause() that releases the voices while the clock still runs
PauseBodyReleasesFirst ==
  <<"playGeneration++", "releaseAllVoices", "transport.pause", "transport.cancel",
    "stopExternal", "mute">>

PauseBody ==
  <<"playGeneration++", "transport.pause", "transport.cancel", "stopExternal",
    "releaseAllVoices", "mute">>

RestartBody ==
  <<"transport.stop", "transport.cancel", "stopExternal", "releaseAllVoices", "restoreVolume">>

Bodies ==
  [playFromMidi |-> RestartBody \o <<"scheduleMidiAutomation", "scheduleMidiNotes",
                                     "transport.start">>,
   playFromExternal |-> RestartBody \o <<"ensureExternalLoaded">>,
   pause |-> PauseBody,
   setAudioModeRestart |-> <<"assign">> \o PauseBody \o <<"dropPlayer">>,
   setAudioModeKept |-> <<"assign", "dropPlayer">>]

\* the statements that write ChannelFx
WritingStatements == {"releaseAllVoices", "scheduleMidiAutomation", "scheduleMidiNotes"}

\* the place of the statement a handler ran last, 0 when last is no handler's
PlaceOf(step) ==
  IF step.act \in DOMAIN Bodies
  THEN CHOOSE i \in 1..Len(Bodies[step.act]) : Bodies[step.act][i] = step.outcome
  ELSE 0

Running == last.act \in DOMAIN Bodies /\ PlaceOf(last) < Len(Bodies[last.act])

\* one statement on the engine
Exec(e, stmt, song, fromSeconds) ==
  CASE stmt = "playGeneration++" -> [e EXCEPT !.gen = @ + 1]
    [] stmt = "transport.stop" ->
         [e EXCEPT !.transport = transportStop(@),
                   !.ops = @ \o <<Op("transport.stop", 0, 0, 0, TRUE)>>]
    [] stmt = "transport.pause" ->
         [e EXCEPT !.transport = transportPause(@),
                   !.ops = @ \o <<Op("transport.pause", 0, 0, 0, TRUE)>>]
    [] stmt = "transport.cancel" ->
         [e EXCEPT !.q = <<>>, !.ops = @ \o <<Op("transport.cancel", 0, 0, 0, TRUE)>>]
    [] stmt = "stopExternal" ->
         [e EXCEPT !.player = stopExternal(@), !.ops = @ \o PlayerStopOps(e.player)]
    [] stmt = "releaseAllVoices" ->
         [e EXCEPT !.chans = releaseAllVoices(@), !.ops = @ \o ReleaseAllOps(DOMAIN e.chans)]
    [] stmt = "restoreVolume" -> [e EXCEPT !.gain = 1, !.ops = @ \o GainOps(1)]
    [] stmt = "mute" -> [e EXCEPT !.gain = 0, !.ops = @ \o GainOps(0)]
    [] stmt = "scheduleMidiAutomation" -> scheduleMidiAutomation(e, song, fromSeconds)
    [] stmt = "scheduleMidiNotes" -> scheduleMidiNotes(e, song, fromSeconds)
    [] stmt = "transport.start" ->
         [e EXCEPT !.transport = transportStart(@, Max2(0, fromSeconds)),
                   !.ops = @ \o <<Op("transport.start", 0, 0, Max2(0, fromSeconds), TRUE)>>]
    [] stmt = "dropPlayer" -> dropPlayer(e)
    [] OTHER -> e

\* what the statement leaves of the fields of ensureExternalLoaded
KeysAfter(stmt) ==
  /\ externalLoadKey' = IF stmt = "dropPlayer" THEN 0 ELSE externalLoadKey
  /\ externalLoadPromise' = IF stmt = "dropPlayer" THEN 0 ELSE externalLoadPromise
  /\ externalFileKey' = IF stmt = "dropPlayer" THEN 0 ELSE externalFileKey

\* the call a handler ends: playFrom returns (or rejects) on its last statement
CallsAfter(act, c, place) ==
  /\ calls' = IF act \in {"playFromMidi", "playFromExternal"} /\ place = Len(Bodies[act])
              THEN Finish(c) ELSE calls
  /\ stale' = IF act \in {"playFromMidi", "playFromExternal"} /\ place = Len(Bodies[act])
              THEN stale \ {c} ELSE stale

\* the next statement of the handler under way
Continue ==
  /\ Running
  /\ LET place == PlaceOf(last) + 1
         stmt == Bodies[last.act][place]
         from == IF last.call \in Calls THEN calls[last.call].from ELSE 0
     IN /\ SetCore(Exec(Core, stmt, midi, from))
        /\ KeysAfter(stmt)
        /\ CallsAfter(last.act, last.call, place)
        /\ last' = Step(last.act, last.call, stmt, NoCb)
  /\ UNCHANGED <<midi, audioMode, externalAudio, disposed, loads>>
  /\ UNCHANGED pureVars

\* the continuation of playFrom after ensureStarted, up to transport.stop()
BeginPlayFrom(c) ==
  /\ ~Running
  /\ calls[c].pc = "awaitStart"
  /\ ~disposed /\ calls[c].gen = playGeneration
  /\ SetCore(Exec(Core, "transport.stop", midi, calls[c].from))
  /\ last' = Step(IF audioMode = "external" THEN "playFromExternal" ELSE "playFromMidi",
                  c, "transport.stop", NoCb)
  /\ UNCHANGED <<midi, audioMode, externalAudio, disposed, externalFileKey, externalLoadKey,
                 externalLoadPromise, loads, calls, stale>>
  /\ UNCHANGED pureVars

\* pause(), up to the increment of the generation
BeginPause ==
  /\ ~Running
  /\ playGeneration < MaxGen
  /\ SetCore(Exec(Core, "playGeneration++", midi, 0))
  /\ stale' = stale \cup InFlight
  /\ last' = Step("pause", 0, "playGeneration++", NoCb)
  /\ UNCHANGED <<midi, audioMode, externalAudio, disposed, externalFileKey, externalLoadKey,
                 externalLoadPromise, loads, calls>>
  /\ UNCHANGED pureVars

\* setAudioMode(mode) without a file, up to the two assignments
BeginSetAudioMode(mode) ==
  /\ ~Running
  /\ ~disposed
  /\ needsRestart(mode, NoAudio) => playGeneration < MaxGen
  /\ audioMode' = mode
  /\ externalAudio' = NoAudio
  /\ stale' = IF needsRestart(mode, NoAudio) THEN stale \cup InFlight ELSE stale
  /\ last' = Step(IF needsRestart(mode, NoAudio) THEN "setAudioModeRestart"
                  ELSE "setAudioModeKept", 0, "assign", NoCb)
  /\ ops' = <<>>
  /\ UNCHANGED <<midi, disposed, playGeneration, transport, pending, channels, outputGain,
                 externalPlayer, externalFileKey, externalLoadKey, externalLoadPromise,
                 loads, calls>>
  /\ UNCHANGED pureVars

StepSongs == {HeldNoteSong, PedalSong}

StepsInit ==
  /\ midi \in StepSongs
  /\ audioMode = "midi"
  /\ externalAudio = NoAudio
  /\ disposed = FALSE
  /\ playGeneration = 0
  /\ transport = [state |-> "stopped", seconds |-> 0]
  /\ pending = <<>>
  /\ channels = <<>>
  /\ outputGain = 1
  /\ externalPlayer = NoPlayer
  /\ externalFileKey = 0
  /\ externalLoadKey = 0
  /\ externalLoadPromise = 0
  /\ loads = [l \in Loads |-> FreeLoad]
  /\ calls = [c \in Calls |-> IdleCall]
  /\ ops = <<>>
  /\ last = Step("new", 0, "done", NoCb)
  /\ stale = {}
  /\ rpn = RpnIdle
  /\ timing = TimingIdle
  /\ compaction = CompactIdle
  /\ smoother = SmootherIdle
  /\ tracker = TrackerIdle

StepsNext ==
  \/ \E c \in Calls, s \in 0..MaxFrom : ~Running /\ PlayFromCall(c, s)
  \/ \E c \in Calls : ~Running /\ PlayFromStale(c)
  \/ \E c \in Calls : BeginPlayFrom(c)
  \/ BeginPause
  \/ \E mode \in {"midi", "external"} : BeginSetAudioMode(mode)
  \/ Continue
  \/ ~Running /\ Fire

SpecSteps == StepsInit /\ [][StepsNext]_vars

\* ------------------------------------------- derivePitchBendRange, stepwise
\* The RPN events of one channel as scheduleMidiAutomation gathers them.
RpnEvent(controller, time, value) == [time |-> time, controller |-> controller, value |-> value]

RpnControllers == {101, 100, 6, 38}
RpnValues == {0, 12}

\* selected, range 12; deselected, data entry 24; selected again, 50 cents
ReselectInput ==
  <<RpnEvent(101, 0, 0), RpnEvent(100, 0, 0), RpnEvent(6, 0, 12), RpnEvent(100, 1, 12),
    RpnEvent(6, 1, 24), RpnEvent(100, 2, 0), RpnEvent(38, 2, 50)>>

\* the order of a file sorted by controller number: data entry first
ByControllerInput ==
  <<RpnEvent(6, 0, 12), RpnEvent(38, 0, 50), RpnEvent(100, 0, 0), RpnEvent(101, 0, 0),
    RpnEvent(6, 1, 7), RpnEvent(101, 1, 0)>>

RpnInputs ==
  UNION {[1..n -> {RpnEvent(c, t, v) : c \in RpnControllers, t \in 0..MaxRpnTime, v \in RpnValues}] :
           n \in 0..MaxRpnLen}
  \cup {ReselectInput, ByControllerInput}

QuietEngine ==
  /\ midi = HeldNoteSong
  /\ audioMode = "midi"
  /\ externalAudio = NoAudio
  /\ disposed = FALSE
  /\ playGeneration = 0
  /\ transport = [state |-> "stopped", seconds |-> 0]
  /\ pending = <<>>
  /\ channels = <<>>
  /\ outputGain = 1
  /\ externalPlayer = NoPlayer
  /\ externalFileKey = 0
  /\ externalLoadKey = 0
  /\ externalLoadPromise = 0
  /\ loads = [l \in Loads |-> FreeLoad]
  /\ calls = [c \in Calls |-> IdleCall]
  /\ ops = <<>>
  /\ last = Step("new", 0, "done", NoCb)
  /\ stale = {}

RpnInit ==
  /\ QuietEngine
  /\ rpn \in {[pc |-> "call", input |-> in, sorted |-> <<>>, i |-> 0, r |-> RpnStart] :
                in \in RpnInputs}
  /\ timing = TimingIdle
  /\ compaction = CompactIdle
  /\ smoother = SmootherIdle
  /\ tracker = TrackerIdle

\* the early return on no events, or the sort and the initial locals
RpnSort ==
  /\ rpn.pc = "call"
  /\ rpn' = IF Len(rpn.input) = 0
            THEN [rpn EXCEPT !.pc = "returned"]
            ELSE [rpn EXCEPT !.pc = "loop", !.sorted = SortRpn(rpn.input), !.r = RpnStart]
  /\ UNCHANGED <<engineVars, timing, compaction, smoother, tracker>>

\* one iteration of "for (const e of events)"
RpnIterate ==
  /\ rpn.pc = "loop"
  /\ rpn.i < Len(rpn.sorted)
  /\ rpn' = [rpn EXCEPT !.i = @ + 1, !.r = RpnStep(@, rpn.sorted[rpn.i + 1])]
  /\ UNCHANGED <<engineVars, timing, compaction, smoother, tracker>>

\* return out
RpnReturn ==
  /\ rpn.pc = "loop"
  /\ rpn.i = Len(rpn.sorted)
  /\ rpn' = [rpn EXCEPT !.pc = "returned"]
  /\ UNCHANGED <<engineVars, timing, compaction, smoother, tracker>>

RpnNext == RpnSort \/ RpnIterate \/ RpnReturn

SpecRpn == RpnInit /\ [][RpnNext]_vars

\* ------------------------------------------ a round trip through MidiTiming
TempoBpms == {30, DefaultBpm, 600000}
TempoChoices ==
  {RawTempo(Whole(tk), Whole(bpm)) : tk \in {0, BoundaryTick}, bpm \in TempoBpms}

\* the sequence of the round-trip test: 30 bpm throughout, 4/4
DocumentedArgs ==
  [ppq |-> 480, durationTicks |-> 20000, tempos |-> <<RawTempo(Whole(0), Whole(30))>>,
   timeSignatures |-> <<RawTimeSignature(Whole(0), Whole(4), Whole(4))>>]

\* one bar that spans the long sequences
LongBar == RawTimeSignature(Whole(0), Whole(BoundaryTick), Whole(1))
DocumentedTicks == {0, 1, 2, 123, 245, 490, 999, 1000, 12345}

TimingArgs ==
  {[ppq |-> DefaultPpq, durationTicks |-> BoundaryTick + 2 * MaxTickOffset, tempos |-> ts,
    timeSignatures |-> <<LongBar>>] :
     ts \in UNION {[1..n -> TempoChoices] : n \in 0..MaxTempos}}
  \cup {DocumentedArgs}

\* ticks at and around 0, every tempo event and the end
TickSamples(args) ==
  LET anchors == {0, args.durationTicks}
                 \cup {MathFloor(args.tempos[k].ticks) : k \in 1..Len(args.tempos)}
  IN {t \in UNION {(a - MaxTickOffset)..(a + MaxTickOffset) : a \in anchors} \cup DocumentedTicks :
        0 <= t /\ t <= args.durationTicks}

TimingInit ==
  /\ QuietEngine
  /\ rpn = RpnIdle
  /\ timing \in {[TimingIdle EXCEPT !.pc = "new", !.args = a] : a \in TimingArgs}
  /\ compaction = CompactIdle
  /\ smoother = SmootherIdle
  /\ tracker = TrackerIdle

Construct ==
  /\ timing.pc = "new"
  /\ timing' = [timing EXCEPT !.pc = "built", !.tm = MidiTiming(timing.args)]
  /\ UNCHANGED <<engineVars, rpn, compaction, smoother, tracker>>

TicksToSeconds ==
  /\ timing.pc = "built"
  /\ \E t \in TickSamples(timing.args) :
       timing' = [timing EXCEPT !.pc = "seconds", !.t = t,
                                !.seconds = ticksToSeconds(timing.tm, t)]
  /\ UNCHANGED <<engineVars, rpn, compaction, smoother, tracker>>

SecondsToTicks ==
  /\ timing.pc = "seconds"
  /\ timing' = [timing EXCEPT !.pc = "ticks",
                              !.result = secondsToTicks(timing.tm, timing.seconds)]
  /\ UNCHANGED <<engineVars, rpn, compaction, smoother, tracker>>

TimingNext == Construct \/ TicksToSeconds \/ SecondsToTicks

SpecTiming == TimingInit /\ [][TimingNext]_vars

\* --------------------------------- events of every kind given to MidiTiming
\* the sequence length of the defaults tests
DefaultsDuration == 4000

\* ticks of events: the start, the tick of the defaults test, the same tick
\* with a fraction, a negative tick and a tick that is not finite
EventTicks == {Whole(0), Whole(DefaultPpq), Halves(2 * DefaultPpq + 1), Halves(-1), NaN}
EventBpms == {Whole(60), Whole(240), Whole(0), NaN}
EventSignatures ==
  {<<Whole(3), Whole(8)>>, <<Halves(5), Whole(4)>>, <<Halves(1), Whole(4)>>, <<Whole(4), NaN>>}
EventTempos == {RawTempo(tk, bpm) : tk \in EventTicks, bpm \in EventBpms}
EventTimeSignatures ==
  {RawTimeSignature(tk, sig[1], sig[2]) : tk \in EventTicks, sig \in EventSignatures}

\* up to MaxEvents events in all
EventArgs ==
  UNION {{[ppq |-> DefaultPpq, durationTicks |-> DefaultsDuration, tempos |-> ts,
           timeSignatures |-> sigs] :
            sigs \in UNION {[1..n -> EventTimeSignatures] : n \in 0..(MaxEvents - Len(ts))}} :
           ts \in UNION {[1..n -> EventTempos] : n \in 0..MaxEvents}}

\* the finite ticks of the events of args, floored
FlooredTicks(args) ==
  {MathFloor(args.tempos[k].ticks) :
     k \in {j \in 1..Len(args.tempos) : NumberIsFinite(args.tempos[j].ticks)}}

\* ticks before the end: the start, the last one, and each event's tick with
\* the ticks next to it
TicksBeforeEnd(args) ==
  {t \in {0, args.durationTicks - 1}
          \cup UNION {{b - 1, b, b + 1} : b \in FlooredTicks(args)} :
     0 <= t /\ t < args.durationTicks}

EventsInit ==
  /\ QuietEngine
  /\ rpn = RpnIdle
  /\ timing \in {[TimingIdle EXCEPT !.pc = "new", !.args = a] : a \in EventArgs}
  /\ compaction = CompactIdle
  /\ smoother = SmootherIdle
  /\ tracker = TrackerIdle

TicksToSecondsBeforeEnd ==
  /\ timing.pc = "built"
  /\ \E t \in TicksBeforeEnd(timing.args) :
       timing' = [timing EXCEPT !.pc = "seconds", !.t = t,
                                !.seconds = ticksToSeconds(timing.tm, t)]
  /\ UNCHANGED <<engineVars, rpn, compaction, smoother, tracker>>

EventsNext == Construct \/ TicksToSecondsBeforeEnd

SpecEvents == EventsInit /\ [][EventsNext]_vars

\* ------------------------------------------------- bars, beats and seek steps
\* the sequence length of the bar helper test: two bars of 4/4 end at its end
BarsDuration == 3840

\* Time signatures: 3/8, 3/7 (a beat that is no whole number of ticks) and
\* 1/2^70 (a measure far shorter than the spacing of binary64 numbers at the
\* tick it starts). The last is not given at tick 0, where construction
\* would run through some 10^21 measures.
BarSignatures == {<<Whole(3), Whole(8)>>, <<Whole(3), Whole(7)>>, <<Whole(1), Pow2(70)>>}
BarTimeSignatures ==
  {RawTimeSignature(Whole(tk), sig[1], sig[2]) :
     tk \in {0, DefaultPpq, 2 * DefaultPpq}, sig \in BarSignatures}
  \ {RawTimeSignature(Whole(0), Whole(1), Pow2(70))}

\* a sequence of a few ticks, for measures shorter than one tick: with 1/2^11
\* a measure is 1920/2048 of a tick
ShortDuration == 3
ShortBar == RawTimeSignature(Whole(0), Whole(1), Pow2(11))

BarArgs ==
  {[ppq |-> DefaultPpq, durationTicks |-> d, tempos |-> <<>>, timeSignatures |-> sigs] :
     d \in {BarsDuration, DefaultsDuration},
     sigs \in UNION {[1..n -> BarTimeSignatures] : n \in 0..MaxEvents}}
  \cup {[ppq |-> DefaultPpq, durationTicks |-> 0, tempos |-> <<>>, timeSignatures |-> <<>>],
        [ppq |-> DefaultPpq, durationTicks |-> ShortDuration, tempos |-> <<>>,
         timeSignatures |-> <<ShortBar>>]}

\* ticks at the start, at and around the end, at and before every
\* time-signature event and around every measure start
BarTicks(args, tm) ==
  LET events == {MathFloor(args.timeSignatures[k].ticks) : k \in 1..Len(args.timeSignatures)}
      starts == {FFloor(tm.measures[k].startTick) : k \in 1..Len(tm.measures)}
      near == UNION {{b - 1, b} : b \in events} \cup UNION {{b - 1, b, b + 1} : b \in starts}
              \cup {0, args.durationTicks - 1, args.durationTicks, args.durationTicks + 1}
  IN {t \in near : 0 <= t /\ t <= args.durationTicks + 1}

BarsInit ==
  /\ QuietEngine
  /\ rpn = RpnIdle
  /\ timing \in {[TimingIdle EXCEPT !.pc = "new", !.args = a] : a \in BarArgs}
  /\ compaction = CompactIdle
  /\ smoother = SmootherIdle
  /\ tracker = TrackerIdle

GetBarBeatAtTicks(ticks) ==
  /\ timing.pc = "built"
  /\ timing' = [timing EXCEPT
       !.pc = "returned", !.call = [name |-> "getBarBeatAtTicks", ticks |-> ticks],
       !.ret = getBarBeatAtTicks(timing.tm, TickInput(timing.tm, ticks))]
  /\ UNCHANGED <<engineVars, rpn, compaction, smoother, tracker>>

GetSeekStepTicksAtTicks(ticks, pageBars) ==
  /\ timing.pc = "built"
  /\ timing' = [timing EXCEPT
       !.pc = "returned",
       !.call = [name |-> "getSeekStepTicksAtTicks", ticks |-> ticks, pageBars |-> pageBars],
       !.ret = getSeekStepTicksAtTicks(timing.tm, TickInput(timing.tm, ticks), pageBars)]
  /\ UNCHANGED <<engineVars, rpn, compaction, smoother, tracker>>

\* the page size of the paging tests
PageBars == 2

\* the ticks asked of a timing that is built
BuiltTicks == IF timing.pc = "built" THEN BarTicks(timing.args, timing.tm) ELSE {}

\* the ticks a seek step is asked at: one after every measure start, and the end
BuiltSteps ==
  IF timing.pc = "built"
  THEN {FFloor(timing.tm.measures[k].startTick) + 1 : k \in 1..Len(timing.tm.measures)}
       \cup {timing.tm.durationTicks}
  ELSE {}

BarsNext ==
  \/ Construct
  \/ \E t \in BuiltTicks : GetBarBeatAtTicks(Whole(t))
  \/ \E t \in BuiltSteps : GetSeekStepTicksAtTicks(Whole(t), Whole(PageBars))

SpecBars == BarsInit /\ [][BarsNext]_vars

\* ------------------------------------------------------------------ pages
MaxBar == 6
MaxPageBars == 3

\* one time-signature event at most
PageArgs == {a \in BarArgs : Len(a.timeSignatures) <= 1}

PagesInit ==
  /\ QuietEngine
  /\ rpn = RpnIdle
  /\ timing \in {[TimingIdle EXCEPT !.pc = "new", !.args = a] : a \in PageArgs}
  /\ compaction = CompactIdle
  /\ smoother = SmootherIdle
  /\ tracker = TrackerIdle

GetPageRangeForBar(bar, pageBars) ==
  /\ timing.pc = "built"
  /\ timing' = [timing EXCEPT
       !.pc = "returned",
       !.call = [name |-> "getPageRangeForBar", bar |-> bar, pageBars |-> pageBars],
       !.ret = getPageRangeForBar(bar, pageBars)]
  /\ UNCHANGED <<engineVars, rpn, compaction, smoother, tracker>>

GetPageTickRange(pageIndex, pageBars) ==
  /\ timing.pc = "built"
  /\ timing' = [timing EXCEPT
       !.pc = "returned",
       !.call = [name |-> "getPageTickRange", pageIndex |-> pageIndex, pageBars |-> pageBars],
       !.ret = getPageTickRange(timing.tm, pageIndex, pageBars)]
  /\ UNCHANGED <<engineVars, rpn, compaction, smoother, tracker>>

PagesNext ==
  \/ Construct
  \/ \E b \in 1..MaxBar, p \in 1..MaxPageBars : GetPageRangeForBar(Whole(b), Whole(p))
  \/ \E i \in 0..MaxBar, p \in 1..MaxPageBars : GetPageTickRange(Whole(i), Whole(p))

SpecPages == PagesInit /\ [][PagesNext]_vars

\* ---------------------------------------------- queries with any argument
\* The sequence of the sanitising test (two bars of 4/4 at 120 bpm), one with
\* a tempo and a time-signature change, and the empty one.
QueryArgs ==
  {[ppq |-> DefaultPpq, durationTicks |-> BarsDuration,
    tempos |-> <<RawTempo(Whole(0), Whole(DefaultBpm))>>,
    timeSignatures |-> <<RawTimeSignature(Whole(0), Whole(4), Whole(4))>>],
   [ppq |-> DefaultPpq, durationTicks |-> BarsDuration,
    tempos |-> <<RawTempo(Whole(DefaultPpq), Whole(2 * DefaultBpm))>>,
    timeSignatures |-> <<RawTimeSignature(Whole(DefaultPpq), Whole(3), Whole(8))>>],
   [ppq |-> DefaultPpq, durationTicks |-> 0, tempos |-> <<>>, timeSignatures |-> <<>>]}

NotFinite == {NaN, PositiveInfinity, NegativeInfinity}
\* whole ticks, seconds in halves, bars and page sizes in halves
QueryTicks ==
  NotFinite \cup {Whole(t) : t \in {-1, 0, 1, DefaultPpq, BarsDuration, BarsDuration + 1}}
QuerySeconds == NotFinite \cup {Halves(h) : h \in {-1, 0, 1, 3, 8, 9}}
QueryBars == NotFinite \cup {Halves(h) : h \in {-2, 0, 2, 5, 2 * MaxBar}}
QueryPageBars == NotFinite \cup {Halves(h) : h \in {-2, 0, 2, 5}}

QueriesInit ==
  /\ QuietEngine
  /\ rpn = RpnIdle
  /\ timing \in {[TimingIdle EXCEPT !.pc = "new", !.args = a] : a \in QueryArgs}
  /\ compaction = CompactIdle
  /\ smoother = SmootherIdle
  /\ tracker = TrackerIdle

TicksToSecondsOf(ticks) ==
  /\ timing.pc = "built"
  /\ timing' = [timing EXCEPT
       !.pc = "returned", !.call = [name |-> "ticksToSeconds", ticks |-> ticks],
       !.ret = ticksToSeconds(timing.tm, TickInput(timing.tm, ticks))]
  /\ UNCHANGED <<engineVars, rpn, compaction, smoother, tracker>>

SecondsToTicksOf(seconds) ==
  /\ timing.pc = "built"
  /\ timing' = [timing EXCEPT
       !.pc = "returned", !.call = [name |-> "secondsToTicks", seconds |-> seconds],
       !.ret = secondsToTicks(timing.tm, SecondsInput(timing.tm, seconds))]
  /\ UNCHANGED <<engineVars, rpn, compaction, smoother, tracker>>

GetBarStartTick(bar) ==
  /\ timing.pc = "built"
  /\ timing' = [timing EXCEPT
       !.pc = "returned", !.call = [name |-> "getBarStartTick", bar |-> bar],
       !.ret = getBarStartTick(timing.tm, bar)]
  /\ UNCHANGED <<engineVars, rpn, compaction, smoother, tracker>>

GetPageIndexForBar(bar, pageBars) ==
  /\ timing.pc = "built"
  /\ timing' = [timing EXCEPT
       !.pc = "returned",
       !.call = [name |-> "getPageIndexForBar", bar |-> bar, pageBars |-> pageBars],
       !.ret = getPageIndexForBar(bar, pageBars)]
  /\ UNCHANGED <<engineVars, rpn, compaction, smoother, tracker>>

QueriesNext ==
  \/ Construct
  \/ \E t \in QueryTicks : TicksToSecondsOf(t)
  \/ \E x \in QuerySeconds : SecondsToTicksOf(x)
  \/ \E t \in QueryTicks : GetBarBeatAtTicks(t)
  \/ \E b \in QueryBars : GetBarStartTick(b)
  \/ \E b \in QueryBars, p \in QueryPageBars : GetPageIndexForBar(b, p)
  \/ \E b \in QueryBars, p \in QueryPageBars : GetPageRangeForBar(b, p)
  \/ \E i \in QueryBars, p \in QueryPageBars : GetPageTickRange(i, p)
  \/ \E t \in QueryTicks, p \in QueryPageBars : GetSeekStepTicksAtTicks(t, p)

SpecQueries == QueriesInit /\ [][QueriesNext]_vars

\* -------------------------------------------- positions of ticks of any kind
\* A resolution of 24 ticks per quarter note, with which a beat of 3/64 is one
\* tick and a half and a measure four ticks and a half, in a sequence of 5
\* ticks: its second measure starts inside the last tick.
CoarsePpq == 24
CoarseDuration == 5
CoarseBar == RawTimeSignature(Whole(0), Whole(3), Whole(64))

BeatArgs ==
  PageArgs \cup {[ppq |-> CoarsePpq, durationTicks |-> CoarseDuration, tempos |-> <<>>,
                  timeSignatures |-> <<CoarseBar>>]}

\* q quarters of a tick
Quarters(q) == [finite |-> TRUE, halves |-> 2 * q, pow |-> -2]

\* the quarters of the tick before the end, the end, the quarters of the tick
\* in which a measure starts or ends, a negative number and what is no number
BeatTicks(args, tm) ==
  LET starts == {FFloor(tm.measures[k].startTick) : k \in 1..Len(tm.measures)}
      anchors == {a \in starts \cup {b - 1 : b \in starts}
                               \cup {args.durationTicks - 1, args.durationTicks} : a >= 0}
  IN {Quarters(4 * a + k) : a \in anchors, k \in 0..4} \cup NotFinite \cup {Halves(-1)}

BeatsInit ==
  /\ QuietEngine
  /\ rpn = RpnIdle
  /\ timing \in {[TimingIdle EXCEPT !.pc = "new", !.args = a] : a \in BeatArgs}
  /\ compaction = CompactIdle
  /\ smoother = SmootherIdle
  /\ tracker = TrackerIdle

GetBarBeatAtNumber(ticks) ==
  /\ timing.pc = "built"
  /\ timing' = [timing EXCEPT
       !.pc = "returned", !.call = [name |-> "getBarBeatAtTicks", ticks |-> ticks],
       !.ret = getBarBeatAtNumber(timing.tm, TickNumber(timing.tm, ticks))]
  /\ UNCHANGED <<engineVars, rpn, compaction, smoother, tracker>>

BuiltBeatTicks == IF timing.pc = "built" THEN BeatTicks(timing.args, timing.tm) ELSE {}

BeatsNext ==
  \/ Construct
  \/ \E t \in BuiltBeatTicks : GetBarBeatAtNumber(t)

SpecBeats == BeatsInit /\ [][BeatsNext]_vars

\* --------------------------------------------------------- tempo segments
\* Tempo events at tick 0, inside the sequence, at its end and beyond it.
SegmentTempos ==
  {RawTempo(Whole(tk), Whole(bpm)) :
     tk \in {0, DefaultPpq, DefaultsDuration, DefaultsDuration + DefaultPpq},
     bpm \in {DefaultBpm \div 2, 2 * DefaultBpm}}
SegmentArgs ==
  {[ppq |-> DefaultPpq, durationTicks |-> d, tempos |-> ts, timeSignatures |-> <<>>] :
     d \in {0, DefaultsDuration},
     ts \in UNION {[1..n -> SegmentTempos] : n \in 0..MaxEvents}}

SegmentsInit ==
  /\ QuietEngine
  /\ rpn = RpnIdle
  /\ timing \in {[TimingIdle EXCEPT !.pc = "new", !.args = a] : a \in SegmentArgs}
  /\ compaction = CompactIdle
  /\ smoother = SmootherIdle
  /\ tracker = TrackerIdle

SegmentsNext ==
  \/ Construct
  \/ \E t \in {0, DefaultPpq, DefaultsDuration} : TicksToSecondsOf(Whole(t))

SpecSegments == SegmentsInit /\ [][SegmentsNext]_vars

\* ------------------------------------------------ a ChordSmoother at work
\* The clock of the caller advances by 99 or 100 ms between updates, so that
\* 199, 200, 299 and 300 ms after a candidate appeared are all met.
MaxNowMs == 500
TimeSteps == {99, 100}
RawChords ==
  {RawChord("", 0), RawChord("", 1), RawChord("N.C.", 0), RawChord("Cmaj7", 0),
   RawChord("Dm7", 0), RawChord("Dm7", 1)}
InitialChords == {NoChord, "Cmaj7"}

SmootherInit ==
  /\ QuietEngine
  /\ rpn = RpnIdle
  /\ timing = TimingIdle
  /\ compaction = CompactIdle
  /\ smoother \in {[SmootherIdle EXCEPT !.pc = "ready", !.s = NewChordSmoother(initial),
                                         !.before = initial, !.ret = initial] :
                      initial \in InitialChords}
  /\ tracker = TrackerIdle

\* update(raw, nowMs), dt after the call before; the run is the stretch of
\* consecutive updates that gave the same chord: its chord, the time of its
\* first update and its length (2 for any longer one)
Update(raw, dt) ==
  /\ smoother.pc \in {"ready", "updated"}
  /\ smoother.now + dt <= MaxNowMs
  /\ LET nowMs == smoother.now + dt
         next == NextChord(raw)
         after == update(smoother.s, raw, nowMs)
     IN smoother' =
          [pc |-> "updated", s |-> after, now |-> nowMs,
           call |-> [raw |-> raw, nowMs |-> nowMs], before |-> smoother.s.current,
           ret |-> after.current,
           run |-> IF smoother.run.len > 0 /\ smoother.run.next = next
                   THEN [smoother.run EXCEPT !.len = 2]
                   ELSE [next |-> next, start |-> nowMs, len |-> 1]]
  /\ UNCHANGED <<engineVars, rpn, timing, compaction, tracker>>

Reset(value) ==
  /\ smoother.pc = "updated"
  /\ smoother' = [smoother EXCEPT !.pc = "ready", !.s = reset(value), !.before = value,
                                  !.ret = value, !.run = NoRun]
  /\ UNCHANGED <<engineVars, rpn, timing, compaction, tracker>>

SmootherNext ==
  \/ \E raw \in RawChords, dt \in TimeSteps \cup {0} : Update(raw, dt)
  \/ \E value \in InitialChords : Reset(value)

SpecSmoother == SmootherInit /\ [][SmootherNext]_vars

\* The seek specification: one sequence in MIDI mode, played, paused and
\* repositioned.
SeekInit ==
  /\ QuietEngine
  /\ rpn = RpnIdle
  /\ timing = TimingIdle
  /\ compaction = CompactIdle
  /\ smoother = SmootherIdle
  /\ tracker = TrackerIdle

SeekNext ==
  \/ \E s \in 0..MaxResume : PlayFromCall(1, s)
  \/ PlayFromStale(1)
  \/ PlayFromMidi(1)
  \/ Pause
  \/ Fire
  \/ \E seconds \in (0 - 1)..MaxResume : SetPositionSeconds(seconds)

SpecSeek == SeekInit /\ [][SeekNext]_vars

\* ----------------------------------------------------- compactInPlace, stepwise
CompactValues == {0, 1, 2, CcUnit}
CompactPoints == {Pt(t, v) : t \in 0..MaxCompactTime, v \in CompactValues}
CompactInputs == UNION {[1..n -> CompactPoints] : n \in 0..MaxCompactLen}

\* a dense burst: six points of rising value at one instant
DenseBend == [k \in 1..6 |-> Pt(0, 100 * k)]

\* the two parameter pairs of scheduleMidiAutomation
CompactParams == {<<BendInterval, BendEps>>, <<CcInterval, CcEps>>}

CompactInit ==
  /\ QuietEngine
  /\ rpn = RpnIdle
  /\ timing = TimingIdle
  /\ compaction \in {[CompactIdle EXCEPT !.pc = "call", !.events = in,
                                         !.minIntervalSec = p[1], !.valueEpsilon = p[2]] :
                        in \in CompactInputs \cup {DenseBend}, p \in CompactParams}
  /\ smoother = SmootherIdle
  /\ tracker = TrackerIdle

\* the early return on at most one event, or the sort and write = 0
CompactSort ==
  /\ compaction.pc = "call"
  /\ compaction' = IF Len(compaction.events) <= 1
                   THEN [compaction EXCEPT !.pc = "returned", !.kept = compaction.events]
                   ELSE [compaction EXCEPT !.pc = "loop", !.sorted = SortByTime(compaction.events)]
  /\ UNCHANGED <<engineVars, rpn, timing, smoother, tracker>>

\* one iteration of "for (const e of events)": events[0..write) is kept
CompactIterate ==
  /\ compaction.pc = "loop"
  /\ compaction.i < Len(compaction.sorted)
  /\ compaction' =
       [compaction EXCEPT
          !.i = @ + 1,
          !.kept = CompactLoop(@, <<compaction.sorted[compaction.i + 1]>>,
                               compaction.minIntervalSec, compaction.valueEpsilon)]
  /\ UNCHANGED <<engineVars, rpn, timing, smoother, tracker>>

\* events.length = write
CompactReturn ==
  /\ compaction.pc = "loop"
  /\ compaction.i = Len(compaction.sorted)
  /\ compaction' = [compaction EXCEPT !.pc = "returned"]
  /\ UNCHANGED <<engineVars, rpn, timing, smoother, tracker>>

CompactNext == CompactSort \/ CompactIterate \/ CompactReturn

SpecCompact == CompactInit /\ [][CompactNext]_vars

\* ================================================================== claims

\* C1: a playFrom call superseded before its scheduling step (by pause, a
\* later playFrom, a restarting setAudioMode or dispose) changes neither the
\* pending callbacks nor the transport in any of its remaining steps, and
\* whenever the transport goes from not running to running the step is the
\* scheduling step of a call in flight that nothing has superseded, so after
\* a pause only a playFrom issued after it starts the clock.
C1_SupersededNeverStarts ==
  [][ /\ \A c \in stale :
           calls'[c] # calls[c] => (pending' = pending /\ transport' = transport)
      /\ (transport.state # "started" /\ transport'.state = "started")
           => \E c \in Calls \ stale : calls[c].pc # "idle" /\ calls'[c].pc = "idle" ]_vars

\* a superseded call has come back from the await of the external load and
\* returned, with the transport still not running
C1_Witness ==
  /\ last.act = "playFrom.loaded"
  /\ last.outcome = "return"
  /\ ~disposed
  /\ transport.state # "started"

\* C2: right after pause() the transport is not running, nothing is pending,
\* every channel has the pedal up, no sustained note and no sounding voice,
\* the external player is stopped and the master gain was cancelled and then
\* set to 0.
C2_PausePostState ==
  last.act = "pause" =>
    /\ transport.state # "started"
    /\ pending = <<>>
    /\ \A ch \in DOMAIN channels :
         /\ ~channels[ch].state.sustainDown
         /\ channels[ch].state.sustainedNotes = <<>>
         /\ channels[ch].voices = {}
    /\ ~externalPlayer.started
    /\ outputGain = 0
    /\ Len(ops) >= 2
    /\ ops[Len(ops) - 1].op = "gain.cancelScheduledValues"
    /\ ops[Len(ops)].op = "gain.setValueAtTime" /\ ops[Len(ops)].key = 0

\* pause() has just stopped a running transport with a channel in use
C2_Witness ==
  /\ last.act = "pause"
  /\ transport.state = "paused"
  /\ DOMAIN channels # {}
  /\ \E i \in 1..Len(ops) : ops[i].op = "releaseAll"


\* ------------------------------------------------- claims on MIDI playback
Fired(kind) == last.act = "fire" /\ last.cb.kind = kind /\ ~last.cb.drum
Firing(kind) == last'.act = "fire" /\ last'.cb.kind = kind /\ ~last'.cb.drum /\ audioMode = "midi"
StateOf(ch) == channels[ch].state
Sustained(ch) == SeqToSet(channels[ch].state.sustainedNotes)
Releases(o, ch) == {i \in 1..Len(o) : o[i].op = "triggerRelease" /\ o[i].ch = ch}
ReleaseAt(cb) == Op("triggerRelease", cb.ch, cb.key, cb.time, FALSE)
AttackAt(cb) == Op("triggerAttack", cb.ch, cb.key, cb.time, FALSE)

\* the note-off half of C4: deferred under the pedal, released at its own
\* time without it
NoteOffDefers ==
  Firing("noteOff") =>
    LET cb == last'.cb IN
    IF StateOf(cb.ch).sustainDown
    THEN /\ ops' = <<>>
         /\ cb.key \in SeqToSet(channels'[cb.ch].state.sustainedNotes)
    ELSE /\ ops' = <<ReleaseAt(cb)>>
         /\ channels'[cb.ch].state.sustainedNotes = StateOf(cb.ch).sustainedNotes

PedalGoesUp(ch) ==
  /\ Firing("sustain") /\ last'.cb.ch = ch
  /\ StateOf(ch).sustainDown /\ ~channels'[ch].state.sustainDown

Struck(ch, key) == Firing("noteOn") /\ last'.cb.ch = ch /\ last'.cb.key = key

\* C4 as stated: under the pedal a note-off releases nothing and puts the
\* pitch in sustainedNotes, a pitch in sustainedNotes is released only by the
\* step in which the pedal goes up, and with the pedal up the note-off
\* releases the pitch at its own time.
C4_ReleaseOnlyAtPedalUp ==
  [][ /\ NoteOffDefers
      /\ \A ch \in DOMAIN channels : \A i \in Releases(ops', ch) :
           ops'[i].key \in Sustained(ch) => PedalGoesUp(ch) ]_vars

\* C4: under the pedal a note-off releases nothing and puts the pitch in
\* sustainedNotes; a pitch in sustainedNotes is released by the step in which
\* the pedal goes up or, before that, by a note-on that strikes the same pitch
\* again; with the pedal up the note-off releases the pitch at its own time.
C4_DeferredRelease ==
  [][ /\ NoteOffDefers
      /\ \A ch \in DOMAIN channels : \A i \in Releases(ops', ch) :
           ops'[i].key \in Sustained(ch) => (PedalGoesUp(ch) \/ Struck(ch, ops'[i].key)) ]_vars

\* a note-off has just been deferred, and the pitch is still sounding
C4_Witness ==
  /\ Fired("noteOff") /\ ops = <<>>
  /\ StateOf(last.cb.ch).sustainDown
  /\ last.cb.key \in Sustained(last.cb.ch)
  /\ last.cb.key \in channels[last.cb.ch].voices

\* C5: a sustain event that takes the channel from down to up releases, at
\* the event's time, each pitch of sustainedNotes once and nothing else, and
\* empties the set; any other sustain event releases nothing and leaves the
\* set as it was.
C5_PedalUpReleasesSustained ==
  [][ Firing("sustain") =>
        LET cb == last'.cb
            st == StateOf(cb.ch)
            after == channels'[cb.ch].state
        IN /\ after.sustainDown = (2 * cb.value >= CcUnit)
           /\ IF st.sustainDown /\ ~after.sustainDown
              THEN /\ Len(ops') = Len(st.sustainedNotes)
                   /\ {ops'[i] : i \in 1..Len(ops')}
                        = {Op("triggerRelease", cb.ch, k, cb.time, FALSE) : k \in Sustained(cb.ch)}
                   /\ after.sustainedNotes = <<>>
              ELSE /\ ops' = <<>>
                   /\ after.sustainedNotes = st.sustainedNotes ]_vars

\* the pedal has just gone up over two sustained pitches
C5_Witness ==
  /\ Fired("sustain") /\ ~StateOf(last.cb.ch).sustainDown
  /\ Len(ops) = 2
  /\ \A i \in 1..Len(ops) : ops[i].op = "triggerRelease" /\ ops[i].time = last.cb.time
  /\ StateOf(last.cb.ch).sustainedNotes = <<>>

\* C6: a note-on for a pitch in sustainedNotes takes it out of the set and
\* issues its release and then its attack in the one callback; a note-on for
\* any other pitch issues the attack alone and leaves the set as it was.
C6_ReattackReleasesFirst ==
  [][ Firing("noteOn") =>
        LET cb == last'.cb
            after == channels'[cb.ch].state
        IN IF cb.key \in Sustained(cb.ch)
           THEN /\ ops' = <<ReleaseAt(cb), AttackAt(cb)>>
                /\ SeqToSet(after.sustainedNotes) = Sustained(cb.ch) \ {cb.key}
           ELSE /\ ops' = <<AttackAt(cb)>>
                /\ after.sustainedNotes = StateOf(cb.ch).sustainedNotes ]_vars

\* a sustained pitch has just been struck again, the pedal still down
C6_Witness ==
  /\ Fired("noteOn") /\ Len(ops) = 2
  /\ ops[1].op = "triggerRelease" /\ ops[2].op = "triggerAttack"
  /\ StateOf(last.cb.ch).sustainDown

\* The channels the sequence touches and the automation streams it gives
\* them, in time order (points of one time in the order of the sequence).
Touched(song) ==
  {ClampChannel(song.tracks[i].channel) : i \in {j \in 1..Len(song.tracks) : ~song.tracks[j].isDrum}}
  \cup UNION {{ClampChannel(song.tracks[i].channelAftertouch[j].channel) :
                 j \in 1..Len(song.tracks[i].channelAftertouch)} : i \in 1..Len(song.tracks)}
  \cup UNION {{ClampChannel(song.tracks[i].noteAftertouch[j].channel) :
                 j \in 1..Len(song.tracks[i].noteAftertouch)} : i \in 1..Len(song.tracks)}

AutomationKinds ==
  {"range", "bend", "modWheel", "aftertouch", "tremolo", "volume", "expression", "pan", "sustain"}

StreamOf(song, ch, kind) ==
  LET entry == EntryAt(GatherTracks(<<>>, song.tracks), ch) IN
  IF kind = "range" THEN derivePitchBendRange(entry.rpn)
  ELSE SortByTime(entry[IF kind = "bend" THEN "pitchBends" ELSE kind])

PointsUpTo(stream, s) == {i \in 1..Len(stream) : stream[i].time <= s}
LatestUpTo(stream, s) == stream[CHOOSE i \in PointsUpTo(stream, s) : \A j \in PointsUpTo(stream, s) : j <= i]

FieldOf(st, kind) ==
  CASE kind = "range" -> st.pitchBendRangeSemitones
    [] kind = "bend" -> st.pitchBendValue
    [] kind = "modWheel" -> st.modWheel
    [] kind = "aftertouch" -> st.aftertouch
    [] kind = "tremolo" -> st.tremolo
    [] kind = "volume" -> st.volume
    [] kind = "expression" -> st.expression
    [] kind = "pan" -> st.pan
    [] kind = "sustain" -> st.sustainDown

\* the field value a point of value v stands for
FieldValue(kind, v) ==
  CASE kind = "range" -> Max2(0, v)
    [] kind = "bend" -> Max2(0 - BendUnit, Min2(BendUnit, v))
    [] kind = "pan" -> Max2(0 - CcUnit, Min2(CcUnit, 2 * v - CcUnit))
    [] kind = "sustain" -> (2 * v >= CcUnit)
    [] OTHER -> Max2(0, Min2(CcUnit, v))

\* range 2 semitones, volume and expression 1, sustain up, the rest 0
DocumentedDefault(kind) ==
  CASE kind = "range" -> 2 * 100
    [] kind \in {"volume", "expression"} -> CcUnit
    [] kind = "sustain" -> FALSE
    [] OTHER -> 0

\* playFrom has just scheduled and started the clock at transport.seconds
ClockStarted == last.act = "playFrom.started" /\ last.outcome = "started" /\ audioMode = "midi"

\* C7 as stated: when the clock starts, every automation field of every
\* touched channel whose stream has a point at or before the resume position
\* holds the value of the latest such point.
C7_LatestValueApplied ==
  ClockStarted =>
    \A ch \in Touched(midi) : \A kind \in AutomationKinds :
      LET stream == StreamOf(midi, ch, kind) IN
      PointsUpTo(stream, transport.seconds) # {} =>
        FieldOf(StateOf(ch), kind) = FieldValue(kind, LatestUpTo(stream, transport.seconds).value)

\* C8: when the clock starts, every touched channel has no sustained notes
\* and every automation field whose stream has no point at or before the
\* resume position holds its documented default.
C8_ResetToDefaults ==
  ClockStarted =>
    \A ch \in Touched(midi) :
      /\ ch \in DOMAIN channels
      /\ StateOf(ch).sustainedNotes = <<>>
      /\ \A kind \in AutomationKinds :
           PointsUpTo(StreamOf(midi, ch, kind), transport.seconds) = {} =>
             FieldOf(StateOf(ch), kind) = DocumentedDefault(kind)

\* a second or later playback starts before the first point of a stream
C8_Witness ==
  /\ ClockStarted /\ playGeneration >= 2
  /\ \E ch \in Touched(midi) : \E kind \in AutomationKinds :
       /\ StreamOf(midi, ch, kind) # <<>>
       /\ PointsUpTo(StreamOf(midi, ch, kind), transport.seconds) = {}
       /\ \E i \in 1..Len(pending) : pending[i].kind = kind /\ pending[i].ch = ch


\* ------------------------------------------- claims on the RPN derivation
\* The selector pair as the events processed so far leave it: each selector
\* holds the value of its last event, 127 if it has had none.
LastOf(events, n, controller) ==
  LET at == {k \in 1..n : events[k].controller = controller} IN
  IF at = {} THEN 127 ELSE events[CHOOSE k \in at : \A m \in at : m <= k].value

SelectorIsZeroZero(events, n) == LastOf(events, n, 101) = 0 /\ LastOf(events, n, 100) = 0

EffectiveRange(r) == r.semitones * 100 + r.cents

\* C9: a data-entry event (CC6, CC38) processed while the selector pair is
\* not (0,0) -- the initial unselected state included -- leaves the range and
\* the derived points as they were; processed while the pair is (0,0) it sets
\* its half of the range and derives one point at its time; a selector event
\* changes neither.
C9_DataEntryNeedsSelector ==
  [][ rpn.pc = "loop" /\ rpn'.i = rpn.i + 1 =>
        LET e == rpn.sorted[rpn.i + 1] IN
        IF e.controller \in {6, 38} /\ SelectorIsZeroZero(rpn.sorted, rpn.i)
        THEN /\ rpn'.r.semitones = IF e.controller = 6 THEN e.value ELSE rpn.r.semitones
             /\ rpn'.r.cents = IF e.controller = 38 THEN e.value ELSE rpn.r.cents
             /\ rpn'.r.out = Append(rpn.r.out, [time |-> e.time, value |-> EffectiveRange(rpn'.r)])
        ELSE /\ EffectiveRange(rpn'.r) = EffectiveRange(rpn.r)
             /\ rpn'.r.out = rpn.r.out ]_vars

\* data entry has been taken, then ignored under a changed selector, then
\* taken again after the selector was set back
C9_Witness ==
  /\ rpn.pc = "returned" /\ rpn.r.out = derivePitchBendRange(rpn.input)
  /\ \E a, b, c \in 1..Len(rpn.sorted) :
       /\ a < b /\ b < c
       /\ \A k \in {a, b, c} : rpn.sorted[k].controller \in {6, 38}
       /\ SelectorIsZeroZero(rpn.sorted, a - 1)
       /\ ~SelectorIsZeroZero(rpn.sorted, b - 1)
       /\ SelectorIsZeroZero(rpn.sorted, c - 1)
  /\ Len(rpn.r.out) = 2

Occurrences(events, e) == Cardinality({k \in 1..Len(events) : events[k] = e})

\* the rank the claim gives a controller within one timestamp
DocumentedRank(controller) ==
  CASE controller = 101 -> 1 [] controller = 100 -> 2 [] controller = 6 -> 3 [] controller = 38 -> 4

\* C10: the events are processed in an order that holds the input's events,
\* each as often as the input does, by time and within one time by
\* 101, 100, 6, 38; so when the input gives a time exactly one CC101 and one
\* CC100, both 0, every data-entry event of that time derives a point,
\* wherever it stood in the input.  The points returned are those of
\* derivePitchBendRange on the input.
C10_RpnProcessingOrder ==
  rpn.pc \in {"loop", "returned"} /\ rpn.input # <<>> =>
    /\ Len(rpn.sorted) = Len(rpn.input)
    /\ \A k \in 1..Len(rpn.input) :
         Occurrences(rpn.sorted, rpn.input[k]) = Occurrences(rpn.input, rpn.input[k])
    /\ \A a, b \in 1..Len(rpn.sorted) :
         a < b =>
           \/ rpn.sorted[a].time < rpn.sorted[b].time
           \/ /\ rpn.sorted[a].time = rpn.sorted[b].time
              /\ DocumentedRank(rpn.sorted[a].controller) <= DocumentedRank(rpn.sorted[b].controller)
    /\ rpn.r = RpnLoop(RpnStart, SubSeq(rpn.sorted, 1, rpn.i))
    /\ rpn.pc = "returned" => rpn.r.out = derivePitchBendRange(rpn.input)
    /\ rpn.pc = "returned" =>
         \A t \in {rpn.input[k].time : k \in 1..Len(rpn.input)} :
           LET at(c) == {k \in 1..Len(rpn.input) :
                           rpn.input[k].time = t /\ rpn.input[k].controller = c}
           IN (/\ Cardinality(at(101)) = 1 /\ Cardinality(at(100)) = 1
               /\ \A k \in at(101) \cup at(100) : rpn.input[k].value = 0)
              => Cardinality({k \in 1..Len(rpn.r.out) : rpn.r.out[k].time = t})
                   = Cardinality(at(6) \cup at(38))

\* data entry listed before the selector pair of its time has derived a point
C10_Witness ==
  /\ rpn.pc = "returned" /\ Len(rpn.input) >= 3
  /\ rpn.input[1].controller = 6
  /\ \E a, b \in 2..Len(rpn.input) :
       /\ rpn.input[a].controller = 101 /\ rpn.input[b].controller = 100
       /\ rpn.input[a].value = 0 /\ rpn.input[b].value = 0
       /\ rpn.input[a].time = rpn.input[1].time /\ rpn.input[b].time = rpn.input[1].time
  /\ \E k \in 1..Len(rpn.r.out) :
       rpn.r.out[k] = [time |-> rpn.input[1].time, value |-> rpn.input[1].value * 100]


\* --------------------------------------------------- claims on MidiTiming
\* C3 as stated: an integer tick within [0, durationTicks] taken to seconds
\* and back is the same tick.
C3_RoundTrip == timing.pc = "ticks" => timing.result = timing.t

\* ------------------------------------------------------ claims on the detune
\* The range points of a channel: each is 100 * data-entry MSB + data-entry
\* LSB as the accepted data entries up to it leave them.
RangePoints(song, ch) == SeqToSet(StreamOf(song, ch, "range"))

\* C11: on every channel the detune last set on the synth is pitchBendValue
\* times pitchBendRangeSemitones times 100 cents -- after the reset of
\* playFrom and after every callback --, a range callback leaves the range of
\* the derived point it carries (data-entry MSB semitones and LSB cents), a
\* bend callback the clamped bend it carries, and a playback started before
\* the first derived range point has the range of 2 semitones.
C11_DetuneIsBendTimesRange ==
  /\ \A ch \in DOMAIN channels :
       channels[ch].detune = StateOf(ch).pitchBendValue * StateOf(ch).pitchBendRangeSemitones
  /\ Fired("range") =>
       /\ StateOf(last.cb.ch).pitchBendRangeSemitones = Max2(0, last.cb.value)
       /\ Pt(last.cb.time, last.cb.value) \in RangePoints(midi, last.cb.ch)
  /\ Fired("bend") =>
       StateOf(last.cb.ch).pitchBendValue = FieldValue("bend", last.cb.value)
  /\ ClockStarted =>
       \A ch \in Touched(midi) :
         PointsUpTo(StreamOf(midi, ch, "range"), transport.seconds) = {} =>
           channels[ch].detune =
             StateOf(ch).pitchBendValue * DEFAULT_PITCH_BEND_RANGE_SEMITONES * 100

\* a half-way bend has fired under a derived range of 12 semitones 50 cents
C11_Witness ==
  /\ Fired("bend")
  /\ StateOf(last.cb.ch).pitchBendRangeSemitones = 12 * 100 + 50
  /\ channels[last.cb.ch].detune = 4096 * 1250

\* ------------------------------------------------- claims on the compactor
CompactTimes(events) == {events[k].time : k \in 1..Len(events)}
\* the time span of a stream: from its earliest to its latest point
Span(events) ==
  IF events = <<>> THEN 0
  ELSE (CHOOSE t \in CompactTimes(events) : \A u \in CompactTimes(events) : u <= t)
       - (CHOOSE t \in CompactTimes(events) : \A u \in CompactTimes(events) : t <= u)

CompactReturned == compaction.pc = "returned"
\* the callbacks scheduleLatestAndFuture schedules for a compacted stream
ScheduledFor(events, start) == ScheduleFuture(<<>>, events, "bend", 0, start)

\* C12 as stated: the number of output points is at most
\* (time span) / minInterval.
C12_BoundedBySpan ==
  CompactReturned =>
    Len(compaction.kept) * compaction.minIntervalSec <= Span(compaction.events)

\* C12, amended: the output has at most (time span) / minInterval + 1 points
\* -- kept points are at least minInterval apart -- however many points come
\* in, no more callbacks than output points are scheduled, and the stepwise
\* run returns what compactInPlace returns.
C12_BoundedBySpanPlusOne ==
  /\ compaction.pc \in {"loop", "returned"} =>
       \A k \in 1..(Len(compaction.kept) - 1) :
         compaction.kept[k + 1].time - compaction.kept[k].time >= compaction.minIntervalSec
  /\ CompactReturned =>
       /\ compaction.kept =
            compactInPlace(compaction.events, compaction.minIntervalSec, compaction.valueEpsilon)
       /\ compaction.events # <<>> =>
            (Len(compaction.kept) - 1) * compaction.minIntervalSec <= Span(compaction.events)
       /\ \A start \in 0..MaxCompactTime :
            Len(ScheduledFor(compaction.kept, start)) <= Len(compaction.kept)

\* a stream denser than the interval came out shorter, with as many points
\* as the amended bound allows
C12_Witness ==
  /\ CompactReturned
  /\ Len(compaction.kept) >= 2
  /\ Len(compaction.kept) < Len(compaction.events)
  /\ (Len(compaction.kept) - 1) * compaction.minIntervalSec = Span(compaction.events)
  /\ \E k \in 1..(Len(compaction.events) - 1) :
       compaction.sorted[k + 1].time - compaction.sorted[k].time < compaction.minIntervalSec

\* C13: the first output point carries the value of the first input point,
\* the last output point a value within epsilon of the last input point (in
\* time order).
C13_FirstAndLastPreserved ==
  CompactReturned /\ compaction.events # <<>> =>
    LET in == SortByTime(compaction.events)
        out == compaction.kept
    IN /\ out # <<>>
       /\ out[1].value = in[1].value
       /\ Abs(out[Len(out)].value - in[Len(in)].value) <= compaction.valueEpsilon

\* ------------------------------------------ claims on modes, loads, failures
ObservedNow == <<transport, pending, channels, outputGain, externalPlayer>>

\* the clock is not running, nothing is pending, nothing sounds
Silent ==
  /\ transport.state # "started"
  /\ pending = <<>>
  /\ \A ch \in DOMAIN channels : channels[ch].voices = {}
  /\ ~externalPlayer.started

\* C14: a setAudioMode call on a live engine that changes the mode, or the
\* external source or its offset while in external mode, leaves the
\* transport not running and nothing pending and invalidates every playFrom
\* in flight; a call that changes neither leaves transport, pending callbacks
\* and generation as they are.
C14_ModeSwitchPauses ==
  [][ (last'.act = "setAudioMode" /\ ~disposed) =>
        IF \/ audioMode' # audioMode
           \/ audioMode' = "external" /\ FullKey(externalAudio') # FullKey(externalAudio)
        THEN /\ transport'.state # "started"
             /\ pending' = <<>>
             /\ ~externalPlayer'.started
             /\ \A c \in InFlight : calls'[c].gen # playGeneration' /\ c \in stale'
        ELSE /\ transport' = transport
             /\ pending' = pending
             /\ playGeneration' = playGeneration ]_vars

\* a change of the external source has just paused a playback of external
\* audio, with a playFrom in flight
C14_Witness ==
  /\ last.act = "setAudioMode" /\ last.outcome = "restart"
  /\ audioMode = "external"
  /\ transport.state = "paused"
  /\ externalPlayer = NoPlayer
  /\ stale # {}

\* C15: the load that installs its player was not in flight when
\* setAudioMode switched the file or left external mode.
C15_InvalidatedLoadNeverInstalls ==
  \A l \in Loads :
    (last.act = "load" /\ last.call = l /\ last.outcome = "installed") =>
      ~loads[l].invalidated

\* C16: the step in which a playFrom call rejects because its awaited load
\* failed changes nothing, and nothing was changed by the call before it.
C16_FailedLoadLeavesState ==
  [][ \A c \in Calls :
        (last'.act = "playFrom.loaded" /\ last'.call = c /\ last'.outcome = "rejected"
         /\ calls[c].pc = "awaitLoad" /\ calls'[c].pc = "idle") =>
          /\ ObservedNow' = ObservedNow
          /\ ~calls[c].touched ]_vars

C18_SupersededCallTouchesNothing ==
  [][ \A c \in Calls :
        (last'.call = c /\ last'.outcome = "return"
         /\ last'.act \in {"playFrom.started", "playFrom.loaded"}
         /\ calls[c].pc # "idle" /\ calls'[c].pc = "idle") =>
          /\ ObservedNow' = ObservedNow
          /\ ~calls[c].touched ]_vars

\* C19: setPositionSeconds on a running transport signals an error and
\* changes neither run-state nor position.
C19_SeekWhilePlayingFails ==
  [][ (last'.act = "setPositionSeconds" /\ transport.state = "started") =>
        /\ last'.outcome = "error"
        /\ transport' = transport ]_vars

\* C20: the tempo in effect and the time signature of each measure.
\* an event that counts: finite, tick not below 0, bpm above 0
TempoCounts(e) ==
  e.ticks.finite /\ e.bpm.finite /\ ~(e.ticks.halves < 0) /\ ~(e.bpm.halves <= 0)
SignatureCounts(e) ==
  /\ e.ticks.finite /\ ~(e.ticks.halves < 0)
  /\ \A i \in 1..2 : e.timeSignature[i].finite /\ ~(e.timeSignature[i].halves \div 2 <= 0)

\* of the indices in at, the one of the greatest floored tick, the last in
\* input order when several share it
LatestOf(events, at) ==
  CHOOSE k \in at :
    \A j \in at :
      \/ events[j].ticks.halves \div 2 < events[k].ticks.halves \div 2
      \/ events[j].ticks.halves \div 2 = events[k].ticks.halves \div 2 /\ j <= k

\* the bpm the claim gives tick t
TempoInEffect(args, t) ==
  LET at == {k \in 1..Len(args.tempos) :
               TempoCounts(args.tempos[k]) /\ args.tempos[k].ticks.halves \div 2 <= t}
  IN IF at = {} THEN 120 ELSE args.tempos[LatestOf(args.tempos, at)].bpm.halves \div 2

\* the time signature the claim gives a measure that starts at startTick
SignatureInEffect(args, startTick) ==
  LET at == {k \in 1..Len(args.timeSignatures) :
               /\ SignatureCounts(args.timeSignatures[k])
               /\ FLe(FNat(args.timeSignatures[k].ticks.halves \div 2), startTick)}
  IN IF at = {} THEN <<FNat(4), FNat(4)>>
     ELSE LET ts == args.timeSignatures[LatestOf(args.timeSignatures, at)].timeSignature
          IN <<FRound(LNat(ts[1].halves \div 2), ts[1].pow),
               FRound(LNat(ts[2].halves \div 2), ts[2].pow)>>

\* the seconds of tick t when every stretch between two tempo changes runs
\* at the tempo in effect at its start
RECURSIVE SecondsFrom(_, _, _, _)
SecondsFrom(args, from, seconds, t) ==
  LET changes == {args.tempos[k].ticks.halves \div 2 :
                    k \in {j \in 1..Len(args.tempos) : TempoCounts(args.tempos[j])}}
      later == {b \in changes : from < b /\ b <= t}
      to == IF later = {} THEN t ELSE CHOOSE b \in later : \A c \in later : b <= c
      reached == FAdd(seconds, ticksToSecondsDelta(to - from, TempoInEffect(args, from), args.ppq))
  IN IF later = {} THEN reached ELSE SecondsFrom(args, to, reached, t)

\* C20: at every tick before the end, ticksToSeconds gives the seconds of the
\* tempos in effect (the valid event of the greatest floored tick at or before
\* the tick, the last given among equals, 120 bpm when there is none), and
\* every measure has the time signature of the latest valid event at or
\* before its start, 4/4 when there is none.
C20_EventsInEffect ==
  /\ timing.pc = "seconds" /\ timing.t < timing.args.durationTicks
       => timing.seconds = SecondsFrom(timing.args, 0, FZero, timing.t)
  /\ timing.pc = "built"
       => \A i \in 1..Len(timing.tm.measures) :
            timing.tm.measures[i].timeSignature
              = SignatureInEffect(timing.args, timing.tm.measures[i].startTick)

\* Two valid tempo events share a floored tick and differ in bpm, and
\* ticksToSeconds is asked for a tick after the shared one.
C20_Witness ==
  /\ timing.pc = "seconds"
  /\ Len(timing.args.tempos) = 2
  /\ TempoCounts(timing.args.tempos[1]) /\ TempoCounts(timing.args.tempos[2])
  /\ timing.args.tempos[1].ticks # timing.args.tempos[2].ticks
  /\ timing.args.tempos[1].ticks.halves \div 2 = timing.args.tempos[2].ticks.halves \div 2
  /\ timing.args.tempos[1].bpm # timing.args.tempos[2].bpm
  /\ timing.t > timing.args.tempos[2].ticks.halves \div 2
  /\ timing.seconds = SecondsFrom(timing.args, 0, FZero, timing.t)

\* the whole number a query was given
AskedTick == timing.call.ticks.halves \div 2

\* C21: for a tick before the end, the bar that getBarBeatAtTicks reports
\* starts at or before the tick and the next bar starts after it; at or beyond
\* the end (of a sequence that is not empty) it reports the bar and beat of
\* the last tick, a bar that starts before the end.
C21_TickLiesInItsBar ==
  timing.pc = "returned" /\ timing.call.name = "getBarBeatAtTicks"
    => LET tm == timing.tm
           b == timing.ret.bar
           atEnd == getBarBeatAtTicks(tm, tm.durationTicks - 1)
       IN /\ AskedTick < tm.durationTicks
               => /\ FLe(getBarStartTick(tm, Whole(b)), FNat(AskedTick))
                  /\ ~FLe(getBarStartTick(tm, Whole(b + 1)), FNat(AskedTick))
          /\ tm.durationTicks > 0 /\ AskedTick >= tm.durationTicks
               => /\ b = atEnd.bar /\ timing.ret.beat = atEnd.beat
                  /\ ~FLe(FNat(tm.durationTicks), getBarStartTick(tm, Whole(b)))

\* A tick before the end is reported in a later bar that starts between two
\* whole ticks.
C21_Witness ==
  /\ timing.pc = "returned" /\ timing.call.name = "getBarBeatAtTicks"
  /\ AskedTick < timing.tm.durationTicks
  /\ timing.ret.bar >= 2
  /\ LET start == getBarStartTick(timing.tm, Whole(timing.ret.bar))
     IN FNat(FFloor(start)) # start /\ FNat(FFloor(start) + 1) = FNat(AskedTick)

\* C22: the page of bar b with p bars per page has index floor((b - 1) / p),
\* starts at bar index * p + 1, ends p - 1 bars later and contains b; the
\* tick range of page i runs from the start of bar i * p + 1 to the start of
\* bar (i + 1) * p + 1, its start is not after its end, and its end is the
\* start of page i + 1.
C22_PagesTileTheBars ==
  /\ timing.pc = "returned" /\ timing.call.name = "getPageRangeForBar"
       => LET b == WholeValue(timing.call.bar)
              p == WholeValue(timing.call.pageBars)
              r == timing.ret
          IN /\ r.pageIndex = (b - 1) \div p
             /\ r.startBar = r.pageIndex * p + 1
             /\ r.endBar = r.startBar + p - 1
             /\ r.startBar <= b /\ b <= r.endBar
  /\ timing.pc = "returned" /\ timing.call.name = "getPageTickRange"
       => LET i == WholeValue(timing.call.pageIndex)
              p == WholeValue(timing.call.pageBars)
              r == timing.ret
          IN /\ r.startTick = getBarStartTick(timing.tm, Whole(i * p + 1))
             /\ r.endTick = getBarStartTick(timing.tm, Whole((i + 1) * p + 1))
             /\ FLe(r.startTick, r.endTick)
             /\ getPageTickRange(timing.tm, Whole(i + 1), timing.call.pageBars).startTick
                  = r.endTick

\* The tick range of a later page that starts and ends inside the sequence,
\* at two different ticks, is returned.
C22_Witness ==
  /\ timing.pc = "returned" /\ timing.call.name = "getPageTickRange"
  /\ WholeValue(timing.call.pageIndex) >= 1
  /\ WholeValue(timing.call.pageBars) >= 2
  /\ timing.ret.startTick # timing.ret.endTick
  /\ timing.ret.endTick # FNat(timing.tm.durationTicks)

\* the bar a seek step query was asked in, its ticks per beat and its page
AskedBar == getBarBeatAtTicks(timing.tm, TickInput(timing.tm, timing.call.ticks)).bar
AskedTicksPerBeat ==
  ticksPerBeat(timing.tm.ppq, timing.tm.measures[AskedBar].timeSignature)
AskedPage ==
  getPageTickRange(timing.tm,
                   Whole(getPageRangeForBar(Whole(AskedBar), timing.call.pageBars).pageIndex),
                   timing.call.pageBars)

\* C23 as stated: in a sequence that is not empty, the bar step is the
\* distance between the starts of the bar of the position and of the next
\* bar, the page step the distance between the ends of the page of that bar,
\* and the beat step the ticks per beat of the time signature there.
C23_StepsAreDistances ==
  timing.pc = "returned" /\ timing.call.name = "getSeekStepTicksAtTicks"
  /\ timing.tm.durationTicks > 0
    => /\ timing.ret.bar = FSub(getBarStartTick(timing.tm, Whole(AskedBar + 1)),
                                getBarStartTick(timing.tm, Whole(AskedBar)))
       /\ timing.ret.page = FSub(AskedPage.endTick, AskedPage.startTick)
       /\ timing.ret.beat = AskedTicksPerBeat

\* C23: in a sequence that is not empty, the bar step is the distance between
\* the starts of the bar of the position and of the next bar, the page step
\* the distance between the ends of the page of that bar, each at least 1,
\* and the beat step the ticks per beat of the time signature of that bar
\* rounded to the nearest whole number, at least 1.
C23_StepsAreRoundedDistances ==
  timing.pc = "returned" /\ timing.call.name = "getSeekStepTicksAtTicks"
  /\ timing.tm.durationTicks > 0
    => /\ timing.ret.bar = FMax(FNat(1), FSub(getBarStartTick(timing.tm, Whole(AskedBar + 1)),
                                              getBarStartTick(timing.tm, Whole(AskedBar))))
       /\ timing.ret.page = FMax(FNat(1), FSub(AskedPage.endTick, AskedPage.startTick))
       /\ timing.ret.beat = FMax(FNat(1), MathRound(AskedTicksPerBeat))

\* The steps are returned for a position in a bar that a time-signature
\* change cut short, whose beat is no whole number of ticks.
C23_Witness ==
  /\ timing.pc = "returned" /\ timing.call.name = "getSeekStepTicksAtTicks"
  /\ timing.tm.durationTicks > 0
  /\ AskedBar < Len(timing.tm.measures)
  /\ timing.ret.beat # AskedTicksPerBeat
  /\ ~FLe(FMul(timing.tm.measures[AskedBar].timeSignature[1], AskedTicksPerBeat),
          timing.ret.bar)

\* what the claim makes of a tick, a second, a bar and a page size that is
\* not a number or lies outside the range
ActsAsTick(tm, ticks) ==
  IF ticks = PositiveInfinity THEN tm.durationTicks
  ELSE IF ~NumberIsFinite(ticks) \/ ticks.halves < 0 THEN 0
  ELSE MathFloor(ticks)
ActsAsSeconds(tm, seconds) ==
  IF seconds = PositiveInfinity THEN tm.durationSeconds
  ELSE IF ~NumberIsFinite(seconds) \/ seconds.halves < 0 THEN FZero
  ELSE FRound(LNat(seconds.halves), seconds.pow - 1)
ActsAsPageBars(pageBars) == IF pageBars = NaN THEN Whole(1) ELSE pageBars
ActsAsBar(bar) == IF bar = NaN THEN Whole(1) ELSE bar
BarIsBeyond(tm, bar) ==
  bar = PositiveInfinity \/ (NumberIsFinite(bar) /\ MathFloor(bar) > Len(tm.measures))

\* the conversions return what they return for the tick or second the
\* argument acts as, a value between 0 and the end
ConversionsAreSanitized ==
  /\ timing.call.name = "ticksToSeconds"
       => /\ timing.ret = ticksToSeconds(timing.tm, ActsAsTick(timing.tm, timing.call.ticks))
          /\ FLe(timing.ret, timing.tm.durationSeconds)
  /\ timing.call.name = "secondsToTicks"
       => /\ timing.ret = secondsToTicks(timing.tm, ActsAsSeconds(timing.tm, timing.call.seconds))
          /\ 0 <= timing.ret /\ timing.ret <= timing.tm.durationTicks

\* a position is the one of the tick the argument acts as, a bar, a beat and
\* a subdivision that exist; the steps from it are at least one tick
PositionsAreSanitized ==
  /\ timing.call.name = "getBarBeatAtTicks"
       => /\ timing.ret = getBarBeatAtTicks(timing.tm, ActsAsTick(timing.tm, timing.call.ticks))
          /\ 1 <= timing.ret.bar /\ timing.ret.bar <= Len(timing.tm.measures)
          /\ FLe(FNat(1), timing.ret.beat)
          /\ FLe(timing.ret.beat, timing.ret.timeSignature[1])
          /\ 0 <= timing.ret.subBeat1000 /\ timing.ret.subBeat1000 <= 999
  /\ timing.call.name = "getSeekStepTicksAtTicks"
       => /\ timing.ret = getSeekStepTicksAtTicks(timing.tm,
                             ActsAsTick(timing.tm, timing.call.ticks),
                             ActsAsPageBars(timing.call.pageBars))
          /\ FLe(FNat(1), timing.ret.beat) /\ FLe(FNat(1), timing.ret.bar)
          /\ FLe(FNat(1), timing.ret.page)

\* pages are those of the bar and the page size the arguments act as
PagesAreSanitized ==
  /\ timing.call.name = "getPageIndexForBar"
       => /\ timing.ret = getPageIndexForBar(ActsAsBar(timing.call.bar),
                                             ActsAsPageBars(timing.call.pageBars))
          /\ timing.ret >= 0
  /\ timing.call.name = "getPageRangeForBar"
       => /\ timing.ret = getPageRangeForBar(ActsAsBar(timing.call.bar),
                                             ActsAsPageBars(timing.call.pageBars))
          /\ timing.ret.pageIndex >= 0 /\ 1 <= timing.ret.startBar
          /\ timing.ret.startBar <= timing.ret.endBar
  /\ timing.call.name = "getPageTickRange"
       => /\ timing.ret = getPageTickRange(timing.tm, timing.call.pageIndex,
                                           ActsAsPageBars(timing.call.pageBars))
          /\ FLe(timing.ret.startTick, timing.ret.endTick)
          /\ FLe(timing.ret.endTick, FNat(timing.tm.durationTicks))

\* the start of a bar lies in the sequence, it is 0 for a bar that is not a
\* number
BarStartsAreSanitized ==
  timing.call.name = "getBarStartTick"
    => /\ FLe(timing.ret, FNat(timing.tm.durationTicks))
       /\ timing.call.bar = NaN => timing.ret = FZero

\* C24: every query of a MidiTiming returns a result in its range for every
\* number: a tick or second that is not a number or is negative acts as 0,
\* one that is +infinity as the end, a bar that is not a number as bar 1, a
\* page size that is not a number as 1, and the start of a bar beyond the
\* last measure is durationTicks.
C24_EveryArgumentIsSanitized ==
  timing.pc = "returned"
    => /\ ConversionsAreSanitized
       /\ PositionsAreSanitized
       /\ PagesAreSanitized
       /\ BarStartsAreSanitized
       /\ timing.call.name = "getBarStartTick" /\ BarIsBeyond(timing.tm, timing.call.bar)
            => timing.ret = FNat(timing.tm.durationTicks)

\* C25: on every channel the depth last set on the vibrato is the larger of
\* the channel's modWheel and aftertouch, clamped to [0, 1], whatever
\* mod-wheel and aftertouch callbacks have run.
C25_VibratoIsTheLarger ==
  \A ch \in DOMAIN channels :
    channels[ch].vibrato = clamp01(Max2(channels[ch].state.modWheel,
                                        channels[ch].state.aftertouch))

\* An aftertouch callback has brought a value below the mod wheel's, which
\* is not 0.
C25_Witness ==
  /\ last.act = "fire" /\ last.cb.kind = "aftertouch"
  /\ 0 < channels[last.cb.ch].state.aftertouch
  /\ channels[last.cb.ch].state.aftertouch < channels[last.cb.ch].state.modWheel
  /\ channels[last.cb.ch].state.aftertouch = last.cb.value
  /\ channels[last.cb.ch].vibrato = channels[last.cb.ch].state.modWheel

\* the delay before a chord is displayed
DelayOf(chord) == IF chord = NoChord THEN ncDelayMs ELSE switchDelayMs

\* C26: an update changes the displayed chord from a chord X to another value
\* Y only if Y is the chord the update was given, the update before gave it
\* too, and the updates giving it without interruption span at least
\* switchDelayMs (ncDelayMs when Y is N.C.); from N.C. the first update that
\* gives a chord displays it.
C26_ChordChangesAreDebounced ==
  smoother.pc = "updated"
    => /\ smoother.before # NoChord /\ smoother.s.current # smoother.before
            => /\ smoother.s.current = NextChord(smoother.call.raw)
               /\ smoother.run.len >= 2
               /\ smoother.call.nowMs - smoother.run.start >= DelayOf(smoother.s.current)
               /\ smoother.s.candidate = NoCandidate
       /\ smoother.before = NoChord /\ NextChord(smoother.call.raw) # NoChord
            => smoother.s.current = NextChord(smoother.call.raw)
       /\ smoother.ret = smoother.s.current
       \* a candidate is the chord of the run, waiting since the run began
       /\ smoother.s.candidate # NoCandidate
            => /\ smoother.s.candidate = Candidate(smoother.run.next)
               /\ smoother.s.candidateSinceMs = smoother.run.start
               /\ smoother.run.next # smoother.s.current

\* A chord replaces another one exactly switchDelayMs after it was first
\* given, a different chord having been the candidate before it.
C26_Witness ==
  /\ smoother.pc = "updated"
  /\ smoother.before = "Cmaj7" /\ smoother.s.current = "Dm7"
  /\ smoother.call.raw = RawChord("Dm7", 1)
  /\ smoother.call.nowMs - smoother.run.start = switchDelayMs
  /\ smoother.run.start > 0

\* A playFrom that has taken a new generation and not yet restarted the
\* transport: whatever is pending was scheduled under an earlier generation.
GenerationChanged ==
  \E c \in Calls : calls[c].pc = "awaitStart" /\ calls[c].gen = playGeneration

\* C27: a scheduled callback that fires after the generation has changed
\* since it was scheduled, or in another mode than MIDI, changes no channel
\* and calls no synth or effect.
C27_StaleCallbackDoesNothing ==
  [][(/\ pending # <<>> /\ pending' = Tail(pending) /\ last'.act = "fire"
      /\ (GenerationChanged \/ audioMode # "midi"))
       => channels' = channels /\ ops' = <<>>]_vars

\* two points whose values are within epsilon of each other
SameValue(a, b) == Abs(a.value - b.value) <= compaction.valueEpsilon

\* C28 as stated: in the output of compactInPlace consecutive points are at
\* least minInterval apart and no point has a value within epsilon of the
\* point before it.
C28_SpacedAndDistinct ==
  CompactReturned =>
    \A k \in 1..(Len(compaction.kept) - 1) :
      /\ compaction.kept[k + 1].time - compaction.kept[k].time >= compaction.minIntervalSec
      /\ ~SameValue(compaction.kept[k + 1], compaction.kept[k])

\* C28, amended: in the output of compactInPlace consecutive points are at
\* least minInterval apart, and a point has a value within epsilon of the
\* point before it only if it took the place of an input point of another
\* value that lay less than minInterval before it and at least minInterval
\* after the point before.
C28_SpacedAndDistinctUnlessReplaced ==
  CompactReturned =>
    \A k \in 1..(Len(compaction.kept) - 1) :
      LET a == compaction.kept[k]
          b == compaction.kept[k + 1]
      IN /\ b.time - a.time >= compaction.minIntervalSec
         /\ SameValue(b, a) =>
              \E j \in 1..Len(compaction.sorted) :
                LET p == compaction.sorted[j]
                IN /\ ~SameValue(p, b)
                   /\ p.time <= b.time /\ b.time - p.time < compaction.minIntervalSec
                   /\ p.time - a.time >= compaction.minIntervalSec

\* An output of two points of one value: the second took the place of a
\* point of another value.
C28_Witness ==
  /\ CompactReturned
  /\ Len(compaction.kept) = 2 /\ Len(compaction.events) = 3
  /\ compaction.kept[1].value = compaction.kept[2].value
  /\ compaction.kept[2].time - compaction.kept[1].time > compaction.minIntervalSec

\* C29: the tempo segments of a MidiTiming start at tick 0 and 0 seconds,
\* each ends, in ticks and in seconds, where the next starts, the last ends
\* at durationTicks, and durationSeconds is what ticksToSeconds returns for
\* durationTicks.
C29_SegmentsCoverTheSequence ==
  /\ timing.pc \in {"built", "returned"}
       => LET segs == timing.tm.tempoSegments
          IN /\ Len(segs) >= 1
             /\ segs[1].startTick = 0 /\ segs[1].startSeconds = FZero
             /\ \A k \in 1..(Len(segs) - 1) :
                  /\ segs[k].endTick = segs[k + 1].startTick
                  /\ segs[k].endSeconds = segs[k + 1].startSeconds
             /\ \A k \in 1..Len(segs) : segs[k].startTick <= segs[k].endTick
             /\ segs[Len(segs)].endTick = timing.tm.durationTicks
  /\ timing.pc = "returned" /\ timing.call.name = "ticksToSeconds"
     /\ timing.call.ticks = Whole(timing.tm.durationTicks)
       => timing.ret = timing.tm.durationSeconds

\* ticksToSeconds has answered for the end of a sequence of two segments
\* that was given a tempo event beyond its end.
C29_Witness ==
  /\ timing.pc = "returned" /\ timing.call.name = "ticksToSeconds"
  /\ timing.call.ticks = Whole(timing.tm.durationTicks)
  /\ timing.tm.durationTicks > 0
  /\ Len(timing.tm.tempoSegments) = 2
  /\ \E k \in 1..Len(timing.args.tempos) :
       MathFloor(timing.args.tempos[k].ticks) > timing.tm.durationTicks
  /\ timing.ret = timing.tm.durationSeconds

\* the ticks of the time-signature changes the constructor accepts that lie
\* in the sequence
ChangeTicks(args) ==
  {MathFloor(args.timeSignatures[k].ticks) :
     k \in {j \in 1..Len(args.timeSignatures) :
              /\ SignatureCounts(args.timeSignatures[j])
              /\ MathFloor(args.timeSignatures[j].ticks) <= args.durationTicks}}

\* every change tick in the sequence is the start of a measure
ChangesStartMeasures ==
  \A t \in ChangeTicks(timing.args) :
    \E k \in 1..Len(timing.tm.measures) : timing.tm.measures[k].startTick = FNat(t)

\* the first measure starts at 0 and every other one after the one before
MeasuresIncrease ==
  /\ Len(timing.tm.measures) >= 1
  /\ timing.tm.measures[1].startTick = FZero
  /\ \A k \in 1..(Len(timing.tm.measures) - 1) :
       ~FLe(timing.tm.measures[k + 1].startTick, timing.tm.measures[k].startTick)

\* no change tick lies after the start of a measure and before the start of
\* the next one or, in the last measure, the end of the sequence
NoChangeInsideAMeasure ==
  \A t \in ChangeTicks(timing.args), k \in 1..Len(timing.tm.measures) :
    ~ /\ ~FLe(FNat(t), timing.tm.measures[k].startTick)
      /\ k < Len(timing.tm.measures) => ~FLe(timing.tm.measures[k + 1].startTick, FNat(t))

\* C30: every time-signature change at or before durationTicks starts a
\* measure, the measure starts increase strictly from 0, and no change falls
\* inside a measure, so that one time signature holds across each measure.
C30_ChangesAreMeasureStarts ==
  timing.pc \in {"built", "returned"}
    => ChangesStartMeasures /\ MeasuresIncrease /\ NoChangeInsideAMeasure

\* the position holds a bar the timing has, a whole beat of that bar's time
\* signature and a whole number of thousandths
PositionIsInRange ==
  timing.pc = "returned" /\ timing.call.name = "getBarBeatAtTicks"
    => LET pos == timing.ret IN
       /\ pos.bar \in 1..Len(timing.tm.measures)
       /\ FLe(FNat(1), pos.beat) /\ FLe(pos.beat, pos.timeSignature[1])
       /\ FloorOf(pos.beat) = pos.beat
       /\ pos.subBeat1000 \in 0..999

\* no tick at or before the one asked is reported in a later bar
BarNeverDecreases ==
  timing.pc = "returned" /\ timing.call.name = "getBarBeatAtTicks"
    /\ NumberIsFinite(timing.call.ticks)
    => \A u \in BeatTicks(timing.args, timing.tm) :
         NumberIsFinite(u)
           /\ FLe(TickNumber(timing.tm, u), TickNumber(timing.tm, timing.call.ticks))
           => getBarBeatAtNumber(timing.tm, TickNumber(timing.tm, u)).bar <= timing.ret.bar

\* C31: for every tick argument getBarBeatAtTicks returns a bar in
\* 1..(number of measures), a beat in 1..numerator of the returned time
\* signature and a whole subBeat1000 in 0..999, and the bar it reports never
\* decreases as the tick grows.
C31_PositionInRangeAndMonotone == PositionIsInRange /\ BarNeverDecreases

\* a step of playFrom, pause or setAudioMode
HandlerSteps == last'.act \in DOMAIN Bodies

\* C32: no statement of playFrom, pause or setAudioMode writes a channel
\* while the clock runs (the statements that write are the release of all
\* voices and the two schedulers, and no other statement of theirs changes a
\* channel); playFrom starts the clock with its last statement, callbacks
\* scheduled before; the clock that pause finds running is paused when pause
\* releases the voices.
C32_HandlersWriteWhileStopped ==
  [][HandlerSteps =>
       /\ last'.outcome \in WritingStatements => transport.state # "started"
       /\ channels' # channels => last'.outcome \in WritingStatements
       /\ transport'.state = "started" /\ transport.state # "started"
            => /\ last'.act = "playFromMidi" /\ last'.outcome = "transport.start"
               /\ PlaceOf(last') = Len(Bodies[last'.act])
               /\ pending' = pending
       /\ last'.act = "pause" /\ last'.outcome = "releaseAllVoices"
            => transport.state # "started"]_vars

\* pause has found the clock running after a playFrom, has paused it and has
\* just released the voices of a channel.
C32_Witness ==
  /\ last.act = "pause" /\ last.outcome = "releaseAllVoices"
  /\ transport.state = "paused"
  /\ \E i \in 1..Len(ops) : ops[i].op = "releaseAll"
  /\ outputGain = 1

\* C33: in every state, between handlers and inside them, a channel that
\* holds sustained notes has its pedal recorded as down.
C33_SustainedOnlyUnderPedal ==
  \A ch \in DOMAIN channels :
    channels[ch].state.sustainedNotes # <<>> => channels[ch].state.sustainDown

\* A note-off has just fired under the pedal and left its pitch sustained.
C33_Witness ==
  /\ last.act = "fire" /\ last.cb.kind = "noteOff"
  /\ last.cb.ch \in DOMAIN channels
  /\ last.cb.key \in SeqToSet(channels[last.cb.ch].state.sustainedNotes)
  /\ channels[last.cb.ch].state.sustainDown

\* C34: while the transport runs in external mode the engine holds an
\* external player that is playing: the one the playFrom that started the
\* transport started, not stopped, replaced or disposed since.
C34_RunningPlayerIsKept ==
  isPlaying /\ audioMode = "external" => externalPlayer.id # 0 /\ externalPlayer.started

\* the call has just started the transport at the position it was given
StartedAt(c, s) ==
  /\ last.call = c /\ last.act \in {"playFrom.started", "playFrom.loaded"}
  /\ last.outcome = "started"
  /\ isPlaying /\ transport.seconds = Max2(0, s)

\* the call has just rejected: external mode without a file, or a load that failed
RejectedCall(c) ==
  last.call = c /\ last.act \in {"playFrom.started", "playFrom.loaded"}
    /\ last.outcome = "rejected"

\* C35: under fair completion of the asynchronous steps, a playFrom call
\* that has reached its first await is superseded (by pause, a later
\* playFrom, a restarting setAudioMode or dispose), or rejects for want of a
\* file or of a load that succeeds, or starts the transport at
\* max(0, fromSeconds), and isPlaying() is true then.
C35_PlayFromEventuallyStarts ==
  \A c \in Calls, s \in LiveFrom :
    (calls[c].pc = "awaitStart" /\ calls[c].from = s)
      ~> (c \in stale \/ RejectedCall(c) \/ StartedAt(c, s))

\* A call in external mode has waited for a load and then started the
\* transport at a resume point other than 0, with the player playing.
C35_Witness ==
  /\ last.act = "playFrom.loaded" /\ last.outcome = "started"
  /\ isPlaying /\ transport.seconds = MaxFrom
  /\ audioMode = "external" /\ externalPlayer.started

\* ------------------------------------------------- resuming in mid-sequence
\* One playFrom at a time in MIDI mode over the pedalled and the automated
\* sequences, with resume points up to MaxLate, behind the ends of notes.
ResumeSongs == {HeldNoteSong, PedalSong, RpnSong, MergeSong, FadeSong}

ResumeInit ==
  /\ midi \in ResumeSongs
  /\ audioMode = "midi"
  /\ externalAudio = NoAudio
  /\ disposed = FALSE
  /\ playGeneration = 0
  /\ transport = [state |-> "stopped", seconds |-> 0]
  /\ pending = <<>>
  /\ channels = <<>>
  /\ outputGain = 1
  /\ externalPlayer = NoPlayer
  /\ externalFileKey = 0
  /\ externalLoadKey = 0
  /\ externalLoadPromise = 0
  /\ loads = [l \in Loads |-> FreeLoad]
  /\ calls = [c \in Calls |-> IdleCall]
  /\ ops = <<>>
  /\ last = Step("new", 0, "done", NoCb)
  /\ stale = {}
  /\ rpn = RpnIdle
  /\ timing = TimingIdle
  /\ compaction = CompactIdle
  /\ smoother = SmootherIdle
  /\ tracker = TrackerIdle

ResumeNext ==
  \/ \E s \in 0..MaxLate : PlayFromCall(1, s)
  \/ PlayFromStale(1)
  \/ PlayFromMidi(1)
  \/ Pause
  \/ Fire

SpecResume == ResumeInit /\ [][ResumeNext]_vars

\* The engine as the constructor leaves it.
NewCore ==
  [gen |-> 0, transport |-> [state |-> "stopped", seconds |-> 0], q |-> <<>>,
   chans |-> <<>>, gain |-> 1, player |-> NoPlayer, ops |-> <<>>]

\* The transport fires, in order, every callback due up to T.
RECURSIVE FireDue(_, _, _)
FireDue(chans, q, T) ==
  IF q = <<>> THEN chans
  ELSE IF Head(q).time > T THEN chans
  ELSE LET cb == Head(q)
           known == cb.ch \in DOMAIN chans
           r == RunCallback(IF known THEN chans[cb.ch] ELSE NewChannelFx, cb, "midi")
       IN FireDue(IF known THEN [chans EXCEPT ![cb.ch] = r.fx] ELSE chans, Tail(q), T)

\* The channels after playFrom(0) on a new engine and every callback due up to T.
PlayedFromStart(song, T) ==
  LET e == scheduleAndStart(playRestart(NewCore), "midi", NoAudio, song, 0)
  IN FireDue(e.chans, e.q, T)

\* The transport runs in MIDI mode and has fired every callback due up to
\* its position.
DueCallbacksFired ==
  /\ isPlaying /\ audioMode = "midi"
  /\ pending # <<>> => Head(pending).time > transport.seconds

ScalarFields ==
  {"pitchBendRangeSemitones", "pitchBendValue", "modWheel", "aftertouch", "tremolo",
   "volume", "expression", "pan", "sustainDown"}

\* the scalar fields and the pedal of every channel are those of a playback from 0
ScalarsAsFromStart ==
  DueCallbacksFired =>
    LET ref == PlayedFromStart(midi, transport.seconds) IN
    /\ DOMAIN channels = DOMAIN ref
    /\ \A ch \in DOMAIN channels : \A f \in ScalarFields :
         channels[ch].state[f] = ref[ch].state[f]

\* the sustained notes of every channel are those of a playback from 0
SustainedAsFromStart ==
  DueCallbacksFired =>
    LET ref == PlayedFromStart(midi, transport.seconds) IN
    \A ch \in DOMAIN channels \cap DOMAIN ref :
      SeqToSet(channels[ch].state.sustainedNotes) = SeqToSet(ref[ch].state.sustainedNotes)

\* C36 as stated: once a playback from any resume point has fired every
\* callback due up to a time T, the automation state of each channel, scalar
\* fields, sustainDown and sustainedNotes, is the state of a playback from 0
\* that has fired every callback due up to T.
C36_ResumeEqualsReplay == ScalarsAsFromStart /\ SustainedAsFromStart

\* C37: whenever the transport is running the master output gain is 1.
C37_RunningAtFullGain == isPlaying => outputGain = 1

\* A playFrom that was not the first call on the engine has just set the
\* gain to 1 and started the transport.
C37_Witness ==
  /\ isPlaying /\ outputGain = 1
  /\ last.act = "playFrom.started" /\ last.outcome = "started"
  /\ \E i \in 1..Len(ops) : ops[i].op = "gain.setValueAtTime" /\ ops[i].key = 1
  /\ playGeneration >= 2

\* ------------------------------------------------ what playFrom schedules
\* The stream of one kind of one channel as scheduleLatestAndFuture walks
\* it: compacted, or sorted where no compaction is asked for.
ScheduledStream(song, ch, kind) == Compacted(kind, StreamOf(song, ch, kind))

\* What has a callback coming to it at resume point s: the onset and, off
\* the drum tracks, the end of note j of track i when the note ends after s,
\* and point k of a stream of a channel when it lies after s.
ToSchedule(song, s) ==
  {<<"noteOn", i, j>> : i \in 1..Len(song.tracks), j \in 1..MaxNotes}
  \cup {<<"noteOff", i, j>> : i \in 1..Len(song.tracks), j \in 1..MaxNotes}
  \cup {<<kind, ch, k>> : kind \in AutomationKinds, ch \in Touched(song), k \in 1..MaxStream}

Due(song, s, x) ==
  IF x[1] \in {"noteOn", "noteOff"}
  THEN /\ x[3] <= Len(song.tracks[x[2]].notes)
       /\ song.tracks[x[2]].notes[x[3]].endTime > s
       /\ x[1] = "noteOff" => ~song.tracks[x[2]].isDrum
  ELSE /\ x[3] <= Len(ScheduledStream(song, x[2], x[1]))
       /\ ScheduledStream(song, x[2], x[1])[x[3]].time > s

\* the callback the claim gives it
CallbackFor(song, s, x) ==
  IF x[1] \in {"noteOn", "noteOff"}
  THEN LET track == song.tracks[x[2]]
           note == track.notes[x[3]]
       IN Callback(IF x[1] = "noteOn" THEN Max2(note.time, s) ELSE note.endTime,
                   x[1], ClampChannel(track.channel), note.midi, 0, track.isDrum)
  ELSE LET e == ScheduledStream(song, x[2], x[1])[x[3]]
       IN Callback(e.time, x[1], x[2], 0, e.value, FALSE)

Expected(song, s) == {x \in ToSchedule(song, s) : Due(song, s, x)}

\* C38: when playFrom(s) has started the clock in MIDI mode, the pending
\* callbacks are, each exactly once: for every note with endTime > s a
\* note-on at max(note.time, s) and, off the drum tracks, a note-off at
\* note.endTime, and for every point with time > s of the compacted or
\* derived stream of every channel a callback at the point's time; nothing
\* is pending for a note with endTime <= s or for anything else.
C38_SchedulesEachOnce ==
  ClockStarted =>
    LET s == transport.seconds
        want == Expected(midi, s)
    IN /\ \A x \in want :
            Occurrences(pending, CallbackFor(midi, s, x))
              = Cardinality({y \in want : CallbackFor(midi, s, y) = CallbackFor(midi, s, x)})
       /\ \A k \in 1..Len(pending) : \E x \in want : CallbackFor(midi, s, x) = pending[k]

\* playFrom has resumed inside a note, behind the end of another note and
\* before a point of an automation stream.
C38_Witness ==
  /\ ClockStarted /\ transport.seconds > 0
  /\ \E i \in 1..Len(midi.tracks) : \E j, k \in 1..Len(midi.tracks[i].notes) :
       /\ midi.tracks[i].notes[j].time < transport.seconds
       /\ midi.tracks[i].notes[j].endTime > transport.seconds
       /\ midi.tracks[i].notes[k].endTime <= transport.seconds
  /\ \E n \in 1..Len(pending) : pending[n].kind = "noteOn" /\ pending[n].time = transport.seconds
  /\ \E n \in 1..Len(pending) : pending[n].kind \in AutomationKinds

\* ------------------------------------------------- the RPN close sequence
\* Selecting RPN 0,0, one data entry MSB and then the selector reset of a
\* sequencer: none, CC101 or CC100 or both set to 127 at the time of the data
\* entry, or both a tick later.
SelectAndEnter(t, n) == <<RpnEvent(101, t, 0), RpnEvent(100, t, 0), RpnEvent(6, t, n)>>

CloseTails(t) ==
  {<<>>,
   <<RpnEvent(101, t, 127)>>,
   <<RpnEvent(100, t, 127)>>,
   <<RpnEvent(101, t, 127), RpnEvent(100, t, 127)>>,
   <<RpnEvent(101, t + 1, 127), RpnEvent(100, t + 1, 127)>>}

CloseRanges == {1, 12, 24}

CloseInputs ==
  UNION {{SelectAndEnter(t, n) \o tail : n \in CloseRanges, tail \in CloseTails(t)} :
           t \in 0..MaxRpnTime}

CloseInit ==
  /\ QuietEngine
  /\ rpn \in {[pc |-> "call", input |-> in, sorted |-> <<>>, i |-> 0, r |-> RpnStart] :
                in \in CloseInputs}
  /\ timing = TimingIdle
  /\ compaction = CompactIdle
  /\ smoother = SmootherIdle
  /\ tracker = TrackerIdle

SpecClose == CloseInit /\ [][RpnNext]_vars

\* the input ends with a selector reset at the time of its data entry
ClosedAtOnce ==
  /\ Len(rpn.input) >= 4
  /\ rpn.input[4].time = rpn.input[3].time
  /\ rpn.input[4].controller \in {101, 100} /\ rpn.input[4].value # 0

\* the range returned for the time of the data entry is the one it entered
RangeEntered ==
  \E k \in 1..Len(rpn.r.out) :
    rpn.r.out[k] = [time |-> rpn.input[3].time, value |-> rpn.input[3].value * 100]

\* C39 as stated: when one timestamp carries, in this order, CC101 = 0,
\* CC100 = 0, a data entry MSB of n and a selector reset to a non-zero value,
\* derivePitchBendRange returns the range n semitones for that timestamp.
C39_CloseSequenceSetsRange ==
  rpn.pc = "returned" /\ ClosedAtOnce => RangeEntered

\* the range is entered when the selector is reset later or not at all
OpenSequenceSetsRange ==
  rpn.pc = "returned" /\ ~ClosedAtOnce => RangeEntered

\* ------------------------------------------- the tracker of sounding notes
TNote(midiNo, time, endTime) ==
  TrackedNote(Whole(midiNo), Whole(time), Whole(endTime), Whole(time * 10), Whole(endTime * 10))
TTrack(isDrum, notes) == [isDrum |-> isDrum, notes |-> notes]

\* Track 0: pitch 60 twice at once, 62 struck again at the time it ends, a
\* note of no length, a note with a time that is no number, a note whose
\* ticks do not advance, a note that starts before 0.  Track 1: drums.
\* Track 2: 60 once more, and a pitch of its own.
TrackerSong ==
  [tracks |-> <<
     TTrack(FALSE, <<TNote(60, 0, 2), TNote(60, 1, 3), TNote(62, 2, 3), TNote(62, 3, 4),
                     TNote(64, 1, 1),
                     TrackedNote(Whole(65), NaN, Whole(2), Whole(0), Whole(20)),
                     TrackedNote(Whole(66), Whole(1), Whole(2), Whole(10), Whole(10)),
                     TNote(67, 0 - 1, 1)>>),
     TTrack(TRUE, <<TNote(36, 0, 2)>>),
     TTrack(FALSE, <<TNote(60, 2, 4), TNote(72, 3, 4)>>) >>]

TrackerIndices == {<<0>>, <<0, 2>>, <<2, 1, 0>>, <<1, 7>>}

TrackerArgs ==
  {[midi |-> TrackerSong, trackIndices |-> ix, includeDrums |-> d] :
     ix \in TrackerIndices, d \in BOOLEAN}

\* the seconds given to seek and update
TrackerSeconds ==
  {Whole(k) : k \in (0 - 1)..MaxTrackerTime} \cup {NaN, PositiveInfinity, NegativeInfinity}

TrackerInit ==
  /\ QuietEngine
  /\ rpn = RpnIdle
  /\ timing = TimingIdle
  /\ compaction = CompactIdle
  /\ smoother = SmootherIdle
  /\ tracker \in {[pc |-> "new", args |-> a, t |-> NewActiveNoteTracker(a),
                   call |-> "", seconds |-> Whole(0), ret |-> <<>>] : a \in TrackerArgs}

TrackerSeek(seconds) ==
  /\ tracker.pc # "idle"
  /\ tracker' = [tracker EXCEPT !.pc = "called", !.t = seekTracker(@, seconds),
                                !.call = "seek", !.seconds = seconds]
  /\ UNCHANGED <<engineVars, rpn, timing, compaction, smoother>>

TrackerUpdate(seconds) ==
  /\ tracker.pc # "idle"
  /\ tracker' = [tracker EXCEPT !.pc = "called", !.t = updateTracker(@, seconds),
                                !.call = "update", !.seconds = seconds]
  /\ UNCHANGED <<engineVars, rpn, timing, compaction, smoother>>

GetActiveMidiNotes ==
  /\ tracker.pc = "called"
  /\ tracker' = [tracker EXCEPT !.pc = "returned", !.ret = getActiveMidiNotes(tracker.t)]
  /\ UNCHANGED <<engineVars, rpn, timing, compaction, smoother>>

TrackerNext ==
  \/ \E seconds \in TrackerSeconds : TrackerSeek(seconds)
  \/ \E seconds \in TrackerSeconds : TrackerUpdate(seconds)
  \/ GetActiveMidiNotes

SpecTracker == TrackerInit /\ [][TrackerNext]_vars

\* the time the last call stands for: a time that is no number and a
\* negative time are 0
LastSeconds ==
  IF NumberIsFinite(tracker.seconds) THEN Max2(0, WholeValue(tracker.seconds)) ELSE 0

\* the notes of the tracked tracks that have a length: <<track, note>>
TrackedNotes ==
  LET tracks == PickTracks(tracker.args.midi.tracks, tracker.args.trackIndices,
                           tracker.args.includeDrums)
  IN {x \in (1..Len(tracks)) \X (1..MaxTrackerNotes) :
        /\ x[2] <= Len(tracks[x[1]].notes)
        /\ NoteIsKept(tracks[x[1]].notes[x[2]])}

NoteAt(x) ==
  PickTracks(tracker.args.midi.tracks, tracker.args.trackIndices,
             tracker.args.includeDrums)[x[1]].notes[x[2]]

\* note-ons less note-offs of a pitch among the events up to s
Balance(m, s) ==
  Cardinality({x \in TrackedNotes : WholeValue(NoteAt(x).midi) = m /\ WholeValue(NoteAt(x).time) <= s})
  - Cardinality({x \in TrackedNotes : WholeValue(NoteAt(x).midi) = m /\ WholeValue(NoteAt(x).endTime) <= s})

TrackedPitches == {WholeValue(NoteAt(x).midi) : x \in TrackedNotes}

Sounding(s) == {m \in TrackedPitches : Balance(m, s) > 0}

\* C40: after any sequence of seek and update calls the tracker holds a key
\* for exactly the pitches with more note-ons than note-offs among the events
\* up to the time s of the last call, each with that difference as its
\* count, which is never below 1; getActiveMidiNotes returns these pitches in
\* order, and a new tracker after seek(s) holds the same.
C40_TrackerIsPathIndependent ==
  tracker.pc \in {"called", "returned"} =>
    LET fresh == seekTracker(NewActiveNoteTracker(tracker.args), tracker.seconds) IN
    /\ DOMAIN tracker.t.counts = Sounding(LastSeconds)
    /\ \A m \in DOMAIN tracker.t.counts :
         tracker.t.counts[m] = Balance(m, LastSeconds) /\ tracker.t.counts[m] >= 1
    /\ getActiveMidiNotes(tracker.t) = getActiveMidiNotes(fresh)
    /\ \A m \in DOMAIN tracker.t.counts : tracker.t.counts[m] = fresh.counts[m]
    /\ tracker.t.index = fresh.index /\ tracker.t.currentSeconds = LastSeconds
    /\ tracker.pc = "returned" => tracker.ret = SortedPitches(Sounding(LastSeconds))

\* update has gone back in time to a moment at which a pitch sounds twice
\* and another pitch has ended and begun.
C40_Witness ==
  /\ tracker.pc = "returned" /\ tracker.call = "update"
  /\ tracker.t.index < Len(tracker.t.events)
  /\ \E m \in DOMAIN tracker.t.counts : tracker.t.counts[m] >= 2
  /\ \E k \in 2..tracker.t.index :
       /\ tracker.t.events[k].on /\ ~tracker.t.events[k - 1].on
       /\ tracker.t.events[k].time = tracker.t.events[k - 1].time
       /\ tracker.t.events[k].midi = tracker.t.events[k - 1].midi
  /\ Len(tracker.ret) >= 2

====
